---- MODULE Spec2Model ----
(***************************************************************************)
(* Model of the dual conversation orchestrator of src/app/main.py: the     *)
(* customer flow (procesar_mensaje), the background reboot verification    *)
(* (ejecutar_reboot_y_verificar), the technician flow                      *)
(* (procesar_mensaje_tecnico), the administrator commands, the             *)
(* notification delivery layer (window flag + pending queue) and the       *)
(* ticket-closed webhook, over the Redis keyspace they share.              *)
(*                                                                         *)
(* A Redis key that does not exist is a key outside the DOMAIN of the      *)
(* function that models its keyspace.  Outbound HTTP calls (WhatsApp,      *)
(* MikroWisp, SmartOLT) change no program state: the calls a handler run   *)
(* makes are recorded in `ult`, which is overwritten by every step.        *)
(* Display-only fields (names, addresses, plan text, updated_at) are not   *)
(* carried.                                                                *)
(***************************************************************************)
EXTENDS Integers, Sequences, FiniteSets, TLC

VARIABLES
    sesiones,     \* session:<phone>          -> SessionState
    tsesiones,    \* tecnico_session:<phone>  -> TecnicoSession
    ventana,      \* phones whose ventana_tecnico:<phone> key is alive
    pendientes,   \* pendiente_tecnico:<phone> -> list of {mensaje, timestamp}
    tecnicos,     \* tecnicos_autorizados: phone -> {nombre, activo}
    reloj,        \* datetime.now()
    tickets,      \* number of tickets MikroWisp has created so far
    tareas,       \* spawned ejecutar_reboot_y_verificar tasks
    reentradas,   \* nested procesar_mensaje calls that have not started yet
    cierres,      \* technician closures waiting for mw_cerrar_ticket
    envios,       \* wa_send_message_tecnico_con_fallback calls in flight
    flushes,      \* entregar_tickets_pendientes calls in flight
    entregados,   \* per phone, every queue entry a flush has delivered
    encolados,    \* per phone, every message a send accepted for queueing
    ult           \* what the last step did (calls made, branch taken)

vars == <<sesiones, tsesiones, ventana, pendientes, tecnicos, reloj, tickets,
          tareas, reentradas, cierres, envios, flushes, entregados, encolados,
          ult>>

----------------------------------------------------------------------------
(* Bounds of the model *)

MaxTickets == 2
MaxReloj == 1
MaxHist == 2
MaxPasos == 5
MaxTareas == 1
MaxReentradas == 1
MaxFotos == 1
MaxEnvios == 2
MaxFlushes == 1
MaxTurnos == 12
MaxCorridas == 2

(* Environment (os.getenv) *)

TECNICO_WHATSAPP == "t1"
NOC_WHATSAPP == "noc"
ADMIN_WHATSAPP == "adm"

Clientes == {"c1"}
TecPhones == {TECNICO_WHATSAPP, ADMIN_WHATSAPP}
Destinos == {TECNICO_WHATSAPP, NOC_WHATSAPP}
Canal == TecPhones \cup Destinos

Nulo == "None"
NoTicket == <<>>
NoTs == -1

----------------------------------------------------------------------------
(* Redis primitives *)

Put(f, k, v) == [x \in (DOMAIN f) \cup {k} |-> IF x = k THEN v ELSE f[x]]

Del(f, k) == [x \in (DOMAIN f) \ {k} |-> f[x]]

Vacio == [x \in {} |-> Nulo]

IsPrefix(s, t) == Len(s) <= Len(t) /\ SubSeq(t, 1, Len(s)) = s

\* The id MikroWisp gives the n-th ticket it creates, as str(id).
TicketId(n) == <<n>>

----------------------------------------------------------------------------
(* What a step did *)

UltVacio ==
    [op |-> "init", phone |-> Nulo, rama |-> Nulo,
     wa_tec |-> <<>>, wa_cli |-> <<>>, cerrar |-> <<>>, crear |-> 0,
     contrato |-> Nulo, cuenta |-> <<>>, so |-> <<>>,
     antes |-> Nulo]

\* One call of wa_send_message_tecnico / wa_send_buttons_tecnico.
WaTec(to, tipo, ticket, ts) ==
    [to |-> to, tipo |-> tipo, ticket |-> ticket, ts |-> ts]

\* One call of wa_send_message / wa_send_buttons / wa_send_list.
WaCli(to, tipo) == [to |-> to, tipo |-> tipo]

\* One call of so_get_ont_status / so_get_signal / so_get_full_status /
\* so_reboot_ont, with what SmartOLT answered.
SoLlamada(op, res) == [op |-> op, res |-> res]

\* The phase stored for a phone, or Nulo when the key does not exist.
FaseGuardada(phone) ==
    IF phone \in DOMAIN sesiones THEN sesiones[phone].fase ELSE Nulo

----------------------------------------------------------------------------
(* Notification delivery layer *)

\* A notification: the text is identified by its kind and its ticket.
Notificacion(tipo, ticket) == [tipo |-> tipo, ticket |-> ticket]

Lista(pend, numero) == IF numero \in DOMAIN pend THEN pend[numero] ELSE <<>>

\* Variant: the list read from Redis is dropped and only the new entry is set.
GuardarSobrescribe(pend, numero, mensaje, ahora) ==
    Put(pend, numero, <<[mensaje |-> mensaje, timestamp |-> ahora]>>)

\* guardar_ticket_pendiente: get, append {mensaje, timestamp}, setex.
GuardarTicketPendiente(pend, numero, mensaje, ahora) ==
    Put(pend, numero,
        Append(Lista(pend, numero), [mensaje |-> mensaje, timestamp |-> ahora]))

\* wa_send_message_tecnico_con_fallback: deliver when the window key is alive,
\* otherwise queue.  wa: the provider calls made; cola: whether it queued.
ConFallback(vent, pend, numero, mensaje, ahora) ==
    IF numero \in vent
    THEN [pend |-> pend,
          wa   |-> <<WaTec(numero, mensaje.tipo, mensaje.ticket, NoTs)>>,
          cola |-> FALSE]
    ELSE [pend |-> GuardarTicketPendiente(pend, numero, mensaje, ahora),
          wa   |-> <<>>,
          cola |-> TRUE]

\* The provider calls of a flush: the header, then every entry in list order.
MensajesDeEntrega(numero, lista) ==
    <<WaTec(numero, "cabecera_pendientes", NoTicket, NoTs)>> \o
    [i \in 1..Len(lista) |->
        WaTec(numero, lista[i].mensaje.tipo, lista[i].mensaje.ticket,
              lista[i].timestamp)]

\* Variant: the entries are delivered and the key is not deleted.
EntregarSinBorrar(pend, numero) ==
    IF numero \notin DOMAIN pend
    THEN [pend |-> pend,
          wa |-> <<WaTec(numero, "activo", NoTicket, NoTs)>>,
          entregas |-> <<>>]
    ELSE [pend |-> pend,
          wa |-> MensajesDeEntrega(numero, pend[numero]),
          entregas |-> pend[numero]]

\* entregar_tickets_pendientes, after it has registered the window.
EntregarTicketsPendientes(pend, numero) ==
    IF numero \notin DOMAIN pend
    THEN [pend |-> pend,
          wa |-> <<WaTec(numero, "activo", NoTicket, NoTs)>>,
          entregas |-> <<>>]
    ELSE IF pend[numero] = <<>>
    THEN [pend |-> Del(pend, numero), wa |-> <<>>, entregas |-> <<>>]
    ELSE [pend |-> Del(pend, numero),
          wa |-> MensajesDeEntrega(numero, pend[numero]),
          entregas |-> pend[numero]]

----------------------------------------------------------------------------
(* Authorized technician registry and administrator commands *)

EsTecnicoAutorizado(tecs, phone) ==
    phone \in DOMAIN tecs /\ tecs[phone].activo

\* A text: clase "cmd" starts with "!", "boton" is <verbo><tid>, "fin" is a
\* termination phrase, "libre" any other non-empty text, "vacio" the empty
\* string; NoTexto is Python's None.
Texto(clase, verbo, args, tid) ==
    [clase |-> clase, verbo |-> verbo, args |-> args, tid |-> tid]

NoTexto == Texto("none", Nulo, <<>>, <<>>)

HayTexto(texto) == texto.clase \notin {"none", "vacio"}

\* procesar_comando_admin past its first test: the registry afterwards, the
\* replies, the result.
EjecutarComando(tecs, phone, texto) ==
    IF texto.verbo = "!addtec" /\ Len(texto.args) >= 2
    THEN [tecs |-> Put(tecs, texto.args[1],
                       [nombre |-> SubSeq(texto.args, 2, Len(texto.args)),
                        activo |-> TRUE]),
          wa |-> <<WaTec(phone, "tecnico_agregado", NoTicket, NoTs)>>,
          ok |-> TRUE]
    ELSE IF texto.verbo = "!deltec" /\ Len(texto.args) >= 1
    THEN IF texto.args[1] \in DOMAIN tecs
         THEN [tecs |-> Del(tecs, texto.args[1]),
               wa |-> <<WaTec(phone, "tecnico_eliminado", NoTicket, NoTs)>>,
               ok |-> TRUE]
         ELSE [tecs |-> tecs,
               wa |-> <<WaTec(phone, "numero_no_encontrado", NoTicket, NoTs)>>,
               ok |-> TRUE]
    ELSE IF texto.verbo = "!listec"
    THEN [tecs |-> tecs,
          wa |-> <<WaTec(phone, "lista_tecnicos", NoTicket, NoTs)>>,
          ok |-> TRUE]
    ELSE [tecs |-> tecs, wa |-> <<>>, ok |-> FALSE]

\* Variant: the sender is not compared with ADMIN_WHATSAPP.
ProcesarComandoSinControl(tecs, phone, texto) ==
    EjecutarComando(tecs, phone, texto)

\* procesar_comando_admin: only ADMIN_WHATSAPP is obeyed.
ProcesarComandoAdmin(tecs, phone, texto) ==
    IF phone # ADMIN_WHATSAPP
    THEN [tecs |-> tecs, wa |-> <<>>, ok |-> FALSE]
    ELSE EjecutarComando(tecs, phone, texto)

----------------------------------------------------------------------------
(* Technician flow *)

\* The TecnicoSession notificar_ticket_a_tecnico builds.  The three answers of
\* the closing interview are kept as "texto" or, for None, "none".
TecnicoSession(ticket, cliente, ahora) ==
    [fase |-> "ESPERANDO_CONFIRMACION", ticket_id |-> ticket,
     cliente_phone |-> cliente,
     ts_asignado |-> ahora, ts_confirmado |-> NoTs, ts_en_camino |-> NoTs,
     ts_llegada |-> NoTs, ts_cierre |-> NoTs,
     falla |-> "none", solucion |-> "none", materiales |-> "none",
     fotos |-> 0]

\* An inbound message of the technician number: its type, its text (the body
\* of a text, the id of a button reply), whether the image download worked.
MsgTecnico(type, texto, descarga) ==
    [type |-> type, texto |-> texto, descarga |-> descarga]

\* Lines 1817-1833: texto and image_data of the message.
TextoDe(msg) ==
    IF msg.type \in {"text", "button_reply"} THEN msg.texto ELSE NoTexto

ImagenDe(msg) == msg.type = "image" /\ msg.descarga

\* texto and texto.startswith(f"<verbo>{ticket_id}")
EsBoton(texto, verbo, ticket_id) ==
    /\ HayTexto(texto)
    /\ texto.clase = "boton"
    /\ texto.verbo = verbo
    /\ IsPrefix(ticket_id, texto.tid)

\* texto.lower() in ("fin fotos", "fin", "listo", "ya", "eso es todo")
EsFin(texto) == HayTexto(texto) /\ texto.clase = "fin"

\* What sesion.falla = texto (and the like) stores.
Respuesta(texto) == IF texto.clase = "none" THEN "none" ELSE "texto"

Paso(s, guardar, wa_tec, wa_cli, cerrando, rama) ==
    [sesion |-> s, guardar |-> guardar, wa_tec |-> wa_tec, wa_cli |-> wa_cli,
     cerrando |-> cerrando, rama |-> rama]

NotificarCliente(s, tipo) ==
    IF s.cliente_phone # Nulo THEN <<WaCli(s.cliente_phone, tipo)>> ELSE <<>>

\* Variant: the decline is answered and the assignment stays as it was.
FaseRechazoSinEfecto(phone, s, texto, ahora) ==
    IF EsBoton(texto, "tec_si_", s.ticket_id)
    THEN Paso([s EXCEPT !.fase = "EN_CAMINO", !.ts_confirmado = ahora,
                        !.ts_en_camino = ahora],
              TRUE,
              <<WaTec(phone, "confirmado", s.ticket_id, NoTs),
                WaTec(phone, "boton_llegue", s.ticket_id, NoTs)>>,
              NotificarCliente(s, "tecnico_en_camino"), FALSE, "confirmado")
    ELSE IF EsBoton(texto, "tec_no_", s.ticket_id)
    THEN Paso(s, TRUE,
              <<WaTec(phone, "sera_reasignado", NoTicket, NoTs)>>, <<>>,
              FALSE, "rechazado")
    ELSE Paso(s, FALSE, <<>>, <<>>, FALSE, "ignorado")

\* Variant: the acceptance stamps the confirmation only.
FaseConfirmaSinSello(phone, s, texto, ahora) ==
    IF EsBoton(texto, "tec_si_", s.ticket_id)
    THEN Paso([s EXCEPT !.fase = "EN_CAMINO", !.ts_confirmado = ahora], TRUE,
              <<WaTec(phone, "confirmado", s.ticket_id, NoTs),
                WaTec(phone, "boton_llegue", s.ticket_id, NoTs)>>,
              NotificarCliente(s, "tecnico_en_camino"), FALSE, "confirmado")
    ELSE IF EsBoton(texto, "tec_no_", s.ticket_id)
    THEN Paso([s EXCEPT !.fase = "IDLE"], TRUE,
              <<WaTec(phone, "sera_reasignado", NoTicket, NoTs)>>, <<>>,
              FALSE, "rechazado")
    ELSE Paso(s, FALSE, <<>>, <<>>, FALSE, "ignorado")

\* Lines 1877-1908.
FaseEsperandoConfirmacion(phone, s, texto, ahora) ==
    IF EsBoton(texto, "tec_si_", s.ticket_id)
    THEN Paso([s EXCEPT !.fase = "EN_CAMINO", !.ts_confirmado = ahora,
                        !.ts_en_camino = ahora],
              TRUE,
              <<WaTec(phone, "confirmado", s.ticket_id, NoTs),
                WaTec(phone, "boton_llegue", s.ticket_id, NoTs)>>,
              NotificarCliente(s, "tecnico_en_camino"), FALSE, "confirmado")
    ELSE IF EsBoton(texto, "tec_no_", s.ticket_id)
    THEN Paso([s EXCEPT !.fase = "IDLE"], TRUE,
              <<WaTec(phone, "sera_reasignado", NoTicket, NoTs)>>, <<>>,
              FALSE, "rechazado")
    ELSE Paso(s, FALSE, <<>>, <<>>, FALSE, "ignorado")

\* Variant: the arrival button goes straight to the closing interview.
FaseEnCaminoSalta(phone, s, texto, ahora) ==
    IF EsBoton(texto, "tec_llegue_", s.ticket_id)
    THEN Paso([s EXCEPT !.fase = "CIERRE_P1", !.ts_llegada = ahora], TRUE,
              <<WaTec(phone, "checkin", NoTicket, NoTs),
                WaTec(phone, "pregunta_1", NoTicket, NoTs)>>,
              NotificarCliente(s, "tecnico_llego"), FALSE, "llegada")
    ELSE Paso(s, FALSE, <<>>, <<>>, FALSE, "ignorado")

FaseEnCamino(phone, s, texto, ahora) ==
    IF EsBoton(texto, "tec_llegue_", s.ticket_id)
    THEN Paso([s EXCEPT !.fase = "EN_DOMICILIO", !.ts_llegada = ahora], TRUE,
              <<WaTec(phone, "checkin", NoTicket, NoTs),
                WaTec(phone, "boton_listo", s.ticket_id, NoTs)>>,
              NotificarCliente(s, "tecnico_llego"), FALSE, "llegada")
    ELSE Paso(s, FALSE, <<>>, <<>>, FALSE, "ignorado")

FaseEnDomicilio(phone, s, texto) ==
    IF EsBoton(texto, "tec_listo_", s.ticket_id)
    THEN Paso([s EXCEPT !.fase = "CIERRE_P1"], TRUE,
              <<WaTec(phone, "pregunta_1", NoTicket, NoTs)>>, <<>>, FALSE,
              "trabajo_terminado")
    ELSE Paso(s, FALSE, <<>>, <<>>, FALSE, "ignorado")

FaseCierreP1(phone, s, texto) ==
    Paso([s EXCEPT !.falla = Respuesta(texto), !.fase = "CIERRE_P2"], TRUE,
         <<WaTec(phone, "pregunta_2", NoTicket, NoTs)>>, <<>>, FALSE, "p1")

FaseCierreP2(phone, s, texto) ==
    Paso([s EXCEPT !.solucion = Respuesta(texto), !.fase = "CIERRE_P3"], TRUE,
         <<WaTec(phone, "pregunta_3", NoTicket, NoTs)>>, <<>>, FALSE, "p2")

FaseCierreP3(phone, s, texto) ==
    Paso([s EXCEPT !.materiales = Respuesta(texto), !.fase = "CIERRE_FOTOS"], TRUE,
         <<WaTec(phone, "pedir_fotos", NoTicket, NoTs)>>, <<>>, FALSE, "p3")

\* subida: whether subir_foto_drive returned a link.
FaseCierreFotos(phone, s, texto, imagen, subida, ahora) ==
    IF imagen
    THEN IF subida
         THEN Paso([s EXCEPT !.fotos = @ + 1], TRUE,
                   <<WaTec(phone, "foto_recibida", NoTicket, NoTs)>>, <<>>,
                   FALSE, "foto")
         ELSE Paso(s, FALSE,
                   <<WaTec(phone, "foto_fallida", NoTicket, NoTs)>>, <<>>,
                   FALSE, "foto_fallida")
    ELSE IF EsFin(texto)
    THEN Paso([s EXCEPT !.fase = "CERRANDO", !.ts_cierre = ahora], TRUE,
              <<>>, <<>>, TRUE, "cerrando")
    ELSE Paso(s, FALSE, <<>>, <<>>, FALSE, "ignorado")

\* Lines 1876-2053: the phase dispatch on a session that is not IDLE.
FaseTecnico(phone, s, texto, imagen, subida, ahora) ==
    CASE s.fase = "ESPERANDO_CONFIRMACION" ->
            FaseEsperandoConfirmacion(phone, s, texto, ahora)
      [] s.fase = "EN_CAMINO" -> FaseEnCamino(phone, s, texto, ahora)
      [] s.fase = "EN_DOMICILIO" -> FaseEnDomicilio(phone, s, texto)
      [] s.fase = "CIERRE_P1" -> FaseCierreP1(phone, s, texto)
      [] s.fase = "CIERRE_P2" -> FaseCierreP2(phone, s, texto)
      [] s.fase = "CIERRE_P3" -> FaseCierreP3(phone, s, texto)
      [] s.fase = "CIERRE_FOTOS" ->
            FaseCierreFotos(phone, s, texto, imagen, subida, ahora)
      [] OTHER -> Paso(s, FALSE, <<>>, <<>>, FALSE, "sin_fase")

\* SessionState(phone=phone): the defaults of the model class.
SessionState ==
    [fase |-> "IDENTIFICACION", contrato |-> Nulo, serial_ont |-> Nulo,
     ticket_id |-> NoTicket, kpi_activo |-> Nulo, datos_tecnicos |-> <<>>,
     destino_escalado |-> "TECNICO", pasos_realizados |-> <<>>,
     reboot_ejecutado |-> FALSE, historial |-> 0]

\* get_session: the stored session, or a fresh one (which it saves).
GetSession(ses, phone) ==
    IF phone \in DOMAIN ses THEN ses[phone] ELSE SessionState

Ult(op, phone, rama, wa_tec, wa_cli, cerrar, crear) ==
    [op |-> op, phone |-> phone, rama |-> rama, wa_tec |-> wa_tec,
     wa_cli |-> wa_cli, cerrar |-> cerrar, crear |-> crear,
     contrato |-> Nulo, cuenta |-> <<>>, so |-> <<>>,
     antes |-> Nulo]

\* What one run of procesar_mensaje_tecnico leaves behind.
ResTecnico(tecs, vent, pend, tses, cier, entregas, rama, wa_tec, wa_cli) ==
    [tecnicos |-> tecs, ventana |-> vent, pendientes |-> pend,
     tsesiones |-> tses, cierres |-> cier, entregas |-> entregas,
     rama |-> rama, wa_tec |-> wa_tec, wa_cli |-> wa_cli]

\* Variant: the refusal also drops the technician session of the number.
NoAutorizadoBorra(phone) ==
    ResTecnico(tecnicos, ventana \cup {phone}, pendientes,
               Del(tsesiones, phone), cierres, <<>>, "no_autorizado",
               <<WaTec(phone, "no_autorizado", NoTicket, NoTs)>>, <<>>)

\* Lines 1845-1855: the sender is not in the registry.
NoAutorizado(phone) ==
    ResTecnico(tecnicos, ventana \cup {phone}, pendientes, tsesiones, cierres,
               <<>>, "no_autorizado",
               <<WaTec(phone, "no_autorizado", NoTicket, NoTs)>>, <<>>)

\* Lines 1840-1843: a text that starts with "!".
ComandoAdmin(phone, texto) ==
    LET r == ProcesarComandoAdmin(tecnicos, phone, texto)
    IN  ResTecnico(r.tecs, ventana, pendientes, tsesiones, cierres, <<>>,
                   IF r.ok THEN "admin" ELSE "admin_ignorado", r.wa, <<>>)

\* Lines 1857-2053: window, flush, session lookup and phase dispatch.
Autorizado(phone, texto, imagen, subida) ==
    LET e == EntregarTicketsPendientes(pendientes, phone)
        v == ventana \cup {phone}
    IN  IF phone \notin DOMAIN tsesiones \/ tsesiones[phone].fase = "IDLE"
        THEN ResTecnico(tecnicos, v, e.pend, tsesiones, cierres, e.entregas,
                        "sin_sesion",
                        e.wa \o <<WaTec(phone, "activo_en_sistema", NoTicket, NoTs)>>,
                        <<>>)
        ELSE LET p == FaseTecnico(phone, tsesiones[phone], texto, imagen,
                                  subida, reloj)
             IN  ResTecnico(tecnicos, v, e.pend,
                            IF p.guardar THEN Put(tsesiones, phone, p.sesion)
                                         ELSE tsesiones,
                            IF p.cerrando
                               THEN cierres \cup {[phone |-> phone, sesion |-> p.sesion]}
                               ELSE cierres,
                            e.entregas, p.rama, e.wa \o p.wa_tec, p.wa_cli)

\* procesar_mensaje_tecnico up to the call of mw_cerrar_ticket.
ProcesarTecnico(phone, msg, subida) ==
    LET texto == TextoDe(msg)
        imagen == ImagenDe(msg)
    IN  IF ~HayTexto(texto) /\ ~imagen
        THEN ResTecnico(tecnicos, ventana, pendientes, tsesiones, cierres,
                        <<>>, "sin_contenido", <<>>, <<>>)
        ELSE IF HayTexto(texto) /\ texto.clase = "cmd"
        THEN ComandoAdmin(phone, texto)
        ELSE IF ~EsTecnicoAutorizado(tecnicos, phone)
        THEN NoAutorizado(phone)
        ELSE Autorizado(phone, texto, imagen, subida)

Anotar(log, phone, items) ==
    IF items = <<>> THEN log
    ELSE Put(log, phone, Lista(log, phone) \o items)

\* An inbound message of the technician number, handled by
\* procesar_mensaje_tecnico.
MensajeTecnico(phone, msg, subida) ==
    \E r \in {ProcesarTecnico(phone, msg, subida)} :
        /\ subida => /\ ImagenDe(msg)
                     /\ phone \in DOMAIN tsesiones
                     /\ tsesiones[phone].fase = "CIERRE_FOTOS"
                     /\ tsesiones[phone].fotos < MaxFotos
        /\ tecnicos' = r.tecnicos
        /\ ventana' = r.ventana
        /\ pendientes' = r.pendientes
        /\ tsesiones' = r.tsesiones
        /\ cierres' = r.cierres
        /\ ult' = Ult("tecnico", phone, r.rama, r.wa_tec, r.wa_cli, <<>>, 0)
        /\ UNCHANGED <<sesiones, reloj, tickets, tareas, reentradas, envios,
                       flushes, entregados, encolados>>

\* A call of mw_cerrar_ticket(ticket_id, motivo).
LlamadaCierre(ticket_id, motivo) == [ticket |-> ticket_id, motivo |-> motivo]

\* The links of the evidence section: one numbered line per stored photo.
Enlaces(n) == [i \in 1..n |-> "enlace"]

\* Variant: the evidence section is the list of links also when it is empty.
MotivoSinTextoVacio(s) ==
    [clase |-> "reporte",
     falla |-> IF s.falla = "none" THEN "N/D" ELSE s.falla,
     solucion |-> IF s.solucion = "none" THEN "N/D" ELSE s.solucion,
     materiales |-> IF s.materiales = "none" THEN "Ninguno" ELSE s.materiales,
     evidencias |-> Enlaces(s.fotos)]

\* construir_motivo_cierre: the diagnosis fields with their defaults for an
\* empty answer, and the evidence section, which is the text "Sin evidencias"
\* when sesion.fotos is empty.
ConstruirMotivoCierre(s) ==
    [clase |-> "reporte",
     falla |-> IF s.falla = "none" THEN "N/D" ELSE s.falla,
     solucion |-> IF s.solucion = "none" THEN "N/D" ELSE s.solucion,
     materiales |-> IF s.materiales = "none" THEN "Ninguno" ELSE s.materiales,
     evidencias |-> IF s.fotos = 0 THEN <<"Sin evidencias">>
                                   ELSE Enlaces(s.fotos)]

\* Variant: a failed close keeps the session and starts the close again.
CierreTecnicoReintenta(c, exito) ==
    /\ c \in cierres
    /\ cierres' = IF exito THEN cierres \ {c} ELSE cierres
    /\ tsesiones' = IF exito THEN Del(tsesiones, c.phone) ELSE tsesiones
    /\ ult' = Ult("cierre_tecnico", c.phone,
                  IF exito THEN "cerrado" ELSE "cierre_fallido",
                  IF exito
                     THEN <<WaTec(c.phone, "ticket_cerrado", c.sesion.ticket_id, NoTs)>>
                     ELSE <<>>,
                  <<>>,
                  <<LlamadaCierre(c.sesion.ticket_id,
                                  ConstruirMotivoCierre(c.sesion))>>, 0)
    /\ UNCHANGED <<sesiones, ventana, pendientes, tecnicos, reloj, tickets,
                   tareas, reentradas, envios, flushes, entregados, encolados>>

\* Variant: the close tells the customer and clears the technician session,
\* and leaves the customer's conversation where it was.
CierreTecnicoSinCsat(c, exito) ==
    /\ c \in cierres
    /\ cierres' = cierres \ {c}
    /\ tsesiones' = Del(tsesiones, c.phone)
    /\ ult' = Ult("cierre_tecnico", c.phone,
                  IF exito THEN "cerrado" ELSE "cierre_fallido",
                  IF exito
                     THEN <<WaTec(c.phone, "ticket_cerrado", c.sesion.ticket_id, NoTs)>>
                     ELSE <<WaTec(c.phone, "cerrar_manual", c.sesion.ticket_id, NoTs)>>,
                  IF exito /\ c.sesion.cliente_phone # Nulo
                     THEN <<WaCli(c.sesion.cliente_phone, "servicio_restaurado")>>
                     ELSE <<>>,
                  <<LlamadaCierre(c.sesion.ticket_id,
                                  ConstruirMotivoCierre(c.sesion))>>, 0)
    /\ UNCHANGED <<sesiones, ventana, pendientes, tecnicos, reloj, tickets,
                   tareas, reentradas, envios, flushes, entregados, encolados>>

\* Variant: the technician session is kept after the close call.
CierreTecnicoSinLimpiar(c, exito) ==
    LET s == c.sesion
        avisar == exito /\ s.cliente_phone # Nulo
    IN  /\ c \in cierres
        /\ cierres' = cierres \ {c}
        /\ sesiones' =
              IF avisar
              THEN Put(sesiones, s.cliente_phone,
                       [GetSession(sesiones, s.cliente_phone)
                           EXCEPT !.fase = "CSAT", !.ticket_id = s.ticket_id])
              ELSE sesiones
        /\ tsesiones' = tsesiones
        /\ ult' = Ult("cierre_tecnico", c.phone,
                      IF exito THEN "cerrado" ELSE "cierre_fallido",
                      IF exito
                         THEN <<WaTec(c.phone, "ticket_cerrado", s.ticket_id, NoTs)>>
                         ELSE <<WaTec(c.phone, "cerrar_manual", s.ticket_id, NoTs)>>,
                      IF avisar
                         THEN <<WaCli(s.cliente_phone, "servicio_restaurado")>>
                         ELSE <<>>,
                      <<LlamadaCierre(s.ticket_id, ConstruirMotivoCierre(s))>>,
                      0)
        /\ UNCHANGED <<ventana, pendientes, tecnicos, reloj, tickets, tareas,
                       reentradas, envios, flushes, entregados, encolados>>

\* The rest of CIERRE_FOTOS (lines 2015-2052): mw_cerrar_ticket answers, the
\* technician and the customer are told, the technician session is cleared.
CierreTecnico(c, exito) ==
    LET s == c.sesion
        avisar == exito /\ s.cliente_phone # Nulo
    IN  /\ c \in cierres
        /\ cierres' = cierres \ {c}
        /\ sesiones' =
              IF avisar
              THEN Put(sesiones, s.cliente_phone,
                       [GetSession(sesiones, s.cliente_phone)
                           EXCEPT !.fase = "CSAT", !.ticket_id = s.ticket_id])
              ELSE sesiones
        /\ tsesiones' = Del(tsesiones, c.phone)
        /\ ult' = Ult("cierre_tecnico", c.phone,
                      IF exito THEN "cerrado" ELSE "cierre_fallido",
                      IF exito
                         THEN <<WaTec(c.phone, "ticket_cerrado", s.ticket_id, NoTs)>>
                         ELSE <<WaTec(c.phone, "cerrar_manual", s.ticket_id, NoTs)>>,
                      IF avisar
                         THEN <<WaCli(s.cliente_phone, "servicio_restaurado")>>
                         ELSE <<>>,
                      <<LlamadaCierre(s.ticket_id, ConstruirMotivoCierre(s))>>,
                      0)
        /\ UNCHANGED <<ventana, pendientes, tecnicos, reloj, tickets, tareas,
                       reentradas, envios, flushes, entregados, encolados>>

----------------------------------------------------------------------------
(* Customer flow: helpers *)

\* ISP_CONFIG: the inclusive dBm window of a healthy optical signal.
SENAL_MIN == -27
SENAL_MAX == -8

\* extraer_señal_rx gives None for no data and for a reading of 0.0.
NoSenal == 0

\* Variant: only a reading below the window counts as degraded.
SenalDegradadaSoloBaja(senal_rx) ==
    senal_rx # NoSenal /\ ~(senal_rx >= SENAL_MIN)

\* Variant: the reading is compared with the window without asking first
\* whether there is a reading.
SenalDegradadaSinLectura(senal_rx) ==
    ~(SENAL_MAX >= senal_rx /\ senal_rx >= SENAL_MIN)

\* Line 1032: degraded only with a reading, and one outside the window.
SenalDegradada(senal_rx) ==
    senal_rx # NoSenal /\ ~(SENAL_MAX >= senal_rx /\ senal_rx >= SENAL_MIN)

\* Line 1481: the post-reboot reading is inside the window.
SenalOk(senal_val) ==
    senal_val # NoSenal /\ (SENAL_MAX >= senal_val /\ senal_val >= SENAL_MIN)

\* extraer_contrato: the first run of 6 to 12 digits, or None.
ExtraerContrato(mensaje) == IF mensaje = "123456" THEN mensaje ELSE Nulo

\* mensaje.startswith("kpi_")
EsKpi(mensaje) ==
    mensaje \in {"kpi_lento_todo", "kpi_wifi_lento", "kpi_lag",
                 "kpi_no_internet", "kpi_intermitente", "kpi_dns",
                 "kpi_wifi_no_aparece", "kpi_otro"}

\* Line 1114: one of "sí", "si", "yes", "normal", "bien" occurs in the text.
EsAfirmativo(mensaje) == mensaje \in {"si", "corte_si"}

\* mensaje.startswith("luces_")
EsLuces(mensaje) == mensaje \in {"luces_ninguna", "luces_roja", "luces_normal"}

\* int(mensaje.strip()) for the five scores.
Calificacion(mensaje) ==
    CASE mensaje = "1" -> 1 [] mensaje = "2" -> 2 [] mensaje = "3" -> 3
      [] mensaje = "4" -> 4 [] mensaje = "5" -> 5

\* Variant: the closing note says the case is solved and gives no score.
MotivoCsatSinNota(mensaje) ==
    [clase |-> "csat", calificacion |-> 0, sobre |-> 0]

\* Line 1413: f"Resuelto. CSAT: {calificacion}/5"
MotivoCsat(mensaje) ==
    [clase |-> "csat", calificacion |-> Calificacion(mensaje), sobre |-> 5]

\* mensaje.strip() in ["1", "2", "3", "4", "5"]
EsCalificacion(mensaje) == mensaje \in {"1", "2", "3", "4", "5"}

\* onu_status of SmartOLT, lower-cased; Nulo: the call gave nothing.
EstadosOnt == {Nulo, "online", "offline", "los"}

\* The same with the third critical status, for the first diagnosis.
EstadosDiagnostico == EstadosOnt \cup {"power fail"}

\* Variant: loss of signal is not taken for a critical state.
EsCriticoSinLos(estado) == estado \in {"offline", "power fail"}

EsCritico(estado) == estado \in {"offline", "power fail", "los"}

PasoDe(clave, valor) == [k |-> clave, v |-> valor]

Base(phone) ==
    IF phone \in DOMAIN sesiones THEN sesiones
    ELSE Put(sesiones, phone, SessionState)

\* Line 229: call_glm sends the model the last 10 entries of the transcript.
VentanaGlm == 10

\* call_glm appends the user turn and the reply when the call succeeds.
TrasGlm(s, llm) == IF llm THEN [s EXCEPT !.historial = @ + 2] ELSE s

PuedeGlm(s, llm) == llm => s.historial + 2 <= MaxHist

\* What a run of procesar_mensaje did: as Ult, with, for a run that found the
\* session in IDENTIFICACION, the contract number the message carries and,
\* when the account was looked up, its unpaid balance and its state.
UltCliente(phone, mensaje, rama, wa_tec, wa_cli, cerrar, crear, cuenta) ==
    [Ult("cliente", phone, rama, wa_tec, wa_cli, cerrar, crear) EXCEPT
        !.contrato = IF GetSession(sesiones, phone).fase = "IDENTIFICACION"
                        THEN ExtraerContrato(mensaje) ELSE Nulo,
        !.cuenta = cuenta]

\* Frame of a customer step that touches only the customer's keys.  so: the
\* SmartOLT calls the run made.
SoloClienteSo(phone, mensaje, rama, ses, re, tar, wa_cli, cerrar, so) ==
    /\ sesiones' = ses
    /\ reentradas' = re
    /\ tareas' = tar
    /\ ult' = [UltCliente(phone, mensaje, rama, <<>>, wa_cli, cerrar, 0, <<>>)
                  EXCEPT !.so = so]
    /\ UNCHANGED <<tsesiones, ventana, pendientes, tecnicos, reloj, tickets,
                   cierres, envios, flushes, entregados, encolados>>

\* The same for a run that asks SmartOLT nothing.
SoloCliente(phone, mensaje, rama, ses, re, tar, wa_cli, cerrar) ==
    SoloClienteSo(phone, mensaje, rama, ses, re, tar, wa_cli, cerrar, <<>>)

Guardar(phone, s) == Put(sesiones, phone, s)

\* save ESCALADO, then await procesar_mensaje(phone, mensaje, bg).
Reentrar(re, phone, mensaje) ==
    Append(re, [phone |-> phone, mensaje |-> mensaje])

PuedeReentrar(re) == Len(re) < MaxReentradas

\* bg.add_task(ejecutar_reboot_y_verificar, phone, serial, session)
Tarea(phone, s) ==
    [phone |-> phone, serial |-> s.serial_ont, session |-> s, pc |-> "reboot"]

PuedeLanzar == Cardinality(tareas) < MaxTareas

----------------------------------------------------------------------------
(* Customer flow: one action per phase of procesar_mensaje.  `re` is the list
   of nested calls still to start once this call has been taken from it. *)

\* Line 986: the account state, from the unpaid total of mw_get_facturas
\* and the state of the customer record.
EstadoCuenta(saldo, estado) ==
    IF saldo > 0 /\ estado = "suspendido" THEN "CORTADO_MORA" ELSE "ACTIVO"

\* Variant: every account found goes on to the diagnosis.
FaseIdentificacionSinMora(phone, mensaje, re, llm, cliente, saldo, estado) ==
    LET s == GetSession(sesiones, phone)
        mora == EstadoCuenta(saldo, estado) = "CORTADO_MORA"
        sinCuenta == saldo = 0 /\ estado = "activo"
    IN  /\ s.fase = "IDENTIFICACION"
        /\ IF s.historial = 0
           THEN /\ PuedeGlm(s, llm)
                /\ cliente = "no" /\ sinCuenta
                /\ SoloCliente(phone, mensaje, "saludo",
                               Guardar(phone, TrasGlm(s, llm)), re, tareas,
                               <<WaCli(phone, IF llm THEN "saludo" ELSE "disculpa")>>,
                               <<>>)
           ELSE IF ExtraerContrato(mensaje) = Nulo
           THEN /\ ~llm /\ cliente = "no" /\ sinCuenta
                /\ SoloCliente(phone, mensaje, "sin_contrato", Base(phone), re,
                               tareas, <<WaCli(phone, "reingresar_contrato")>>,
                               <<>>)
           ELSE IF cliente = "no"
           THEN /\ ~llm /\ sinCuenta
                /\ SoloCliente(phone, mensaje, "contrato_no_encontrado",
                               Base(phone), re, tareas,
                               <<WaCli(phone, "contrato_no_encontrado")>>, <<>>)
           ELSE /\ PuedeGlm(s, llm)
                /\ sesiones' = Guardar(phone,
                         [TrasGlm(s, llm) EXCEPT
                            !.contrato = ExtraerContrato(mensaje),
                            !.serial_ont =
                               IF cliente = "con_serial" THEN "SN" ELSE Nulo,
                            !.fase = "DIAGNOSTICO_RED"])
                /\ reentradas' = re
                /\ ult' = UltCliente(phone, mensaje,
                                     IF mora THEN "mora" ELSE "identificado",
                                     <<>>,
                                     <<WaCli(phone, IF llm THEN "identificado"
                                                           ELSE "disculpa")>>,
                                     <<>>, 0, <<saldo, estado>>)
                /\ UNCHANGED <<tsesiones, ventana, pendientes, tecnicos, reloj,
                               tickets, tareas, cierres, envios, flushes,
                               entregados, encolados>>

\* Variant: a contract the directory does not know moves the conversation on.
FaseIdentificacionSinConsulta(phone, mensaje, re, llm, cliente, saldo, estado) ==
    LET s == GetSession(sesiones, phone)
        mora == EstadoCuenta(saldo, estado) = "CORTADO_MORA"
        sinCuenta == saldo = 0 /\ estado = "activo"
    IN  /\ s.fase = "IDENTIFICACION"
        /\ IF s.historial = 0
           THEN /\ PuedeGlm(s, llm)
                /\ cliente = "no" /\ sinCuenta
                /\ SoloCliente(phone, mensaje, "saludo",
                               Guardar(phone, TrasGlm(s, llm)), re, tareas,
                               <<WaCli(phone, IF llm THEN "saludo" ELSE "disculpa")>>,
                               <<>>)
           ELSE IF ExtraerContrato(mensaje) = Nulo
           THEN /\ ~llm /\ cliente = "no" /\ sinCuenta
                /\ SoloCliente(phone, mensaje, "sin_contrato", Base(phone), re,
                               tareas, <<WaCli(phone, "reingresar_contrato")>>,
                               <<>>)
           ELSE IF cliente = "no"
           THEN /\ ~llm /\ sinCuenta
                /\ SoloCliente(phone, mensaje, "contrato_no_encontrado",
                               Guardar(phone,
                                       [s EXCEPT !.fase = "DIAGNOSTICO_RED"]),
                               re, tareas,
                               <<WaCli(phone, "contrato_no_encontrado")>>, <<>>)
           ELSE /\ PuedeGlm(s, llm)
                /\ sesiones' = Guardar(phone,
                         [TrasGlm(s, llm) EXCEPT
                            !.contrato = ExtraerContrato(mensaje),
                            !.serial_ont =
                               IF cliente = "con_serial" THEN "SN" ELSE Nulo,
                            !.fase = IF mora THEN "FINALIZADO_MORA"
                                             ELSE "DIAGNOSTICO_RED"])
                /\ reentradas' = re
                /\ ult' = UltCliente(phone, mensaje,
                                     IF mora THEN "mora" ELSE "identificado",
                                     <<>>,
                                     <<WaCli(phone, IF llm THEN "identificado"
                                                           ELSE "disculpa")>>,
                                     <<>>, 0, <<saldo, estado>>)
                /\ UNCHANGED <<tsesiones, ventana, pendientes, tecnicos, reloj,
                               tickets, tareas, cierres, envios, flushes,
                               entregados, encolados>>

\* Lines 915-1007.  cliente: what mw_get_cliente found ("no", "con_serial",
\* "sin_serial"); saldo, estado: the unpaid total and the state of the account
\* found.
FaseIdentificacion(phone, mensaje, re, llm, cliente, saldo, estado) ==
    LET s == GetSession(sesiones, phone)
        mora == EstadoCuenta(saldo, estado) = "CORTADO_MORA"
        sinCuenta == saldo = 0 /\ estado = "activo"
    IN  /\ s.fase = "IDENTIFICACION"
        /\ IF s.historial = 0
           THEN /\ PuedeGlm(s, llm)
                /\ cliente = "no" /\ sinCuenta
                /\ SoloCliente(phone, mensaje, "saludo",
                               Guardar(phone, TrasGlm(s, llm)), re, tareas,
                               <<WaCli(phone, IF llm THEN "saludo" ELSE "disculpa")>>,
                               <<>>)
           ELSE IF ExtraerContrato(mensaje) = Nulo
           THEN /\ ~llm /\ cliente = "no" /\ sinCuenta
                /\ SoloCliente(phone, mensaje, "sin_contrato", Base(phone), re,
                               tareas, <<WaCli(phone, "reingresar_contrato")>>,
                               <<>>)
           ELSE IF cliente = "no"
           THEN /\ ~llm /\ sinCuenta
                /\ SoloCliente(phone, mensaje, "contrato_no_encontrado",
                               Base(phone), re, tareas,
                               <<WaCli(phone, "contrato_no_encontrado")>>, <<>>)
           ELSE /\ PuedeGlm(s, llm)
                /\ sesiones' = Guardar(phone,
                         [TrasGlm(s, llm) EXCEPT
                            !.contrato = ExtraerContrato(mensaje),
                            !.serial_ont =
                               IF cliente = "con_serial" THEN "SN" ELSE Nulo,
                            !.fase = IF mora THEN "FINALIZADO_MORA"
                                             ELSE "DIAGNOSTICO_RED"])
                /\ reentradas' = re
                /\ ult' = UltCliente(phone, mensaje,
                                     IF mora THEN "mora" ELSE "identificado",
                                     <<>>,
                                     <<WaCli(phone, IF llm THEN "identificado"
                                                           ELSE "disculpa")>>,
                                     <<>>, 0, <<saldo, estado>>)
                /\ UNCHANGED <<tsesiones, ventana, pendientes, tecnicos, reloj,
                               tickets, tareas, cierres, envios, flushes,
                               entregados, encolados>>

\* Lines 1010-1108.  estado, senal: what SmartOLT answers when asked.
FaseDiagnosticoRed(phone, mensaje, re, estado, senal) ==
    LET s == GetSession(sesiones, phone)
        ont_status == IF s.serial_ont # Nulo THEN estado ELSE Nulo
        senal_rx == IF s.serial_ont # Nulo THEN senal ELSE NoSenal
        onu_status_str == IF ont_status # Nulo THEN ont_status ELSE "desconocido"
        so == IF s.serial_ont # Nulo
              THEN <<SoLlamada("status", estado), SoLlamada("signal", senal)>>
              ELSE <<>>
    IN  /\ s.fase = "DIAGNOSTICO_RED"
        /\ s.serial_ont = Nulo => (estado = Nulo /\ senal = NoSenal)
        /\ IF EsCritico(onu_status_str)
           THEN SoloClienteSo(phone, mensaje, "ont_offline",
                   Guardar(phone,
                      [s EXCEPT !.fase = "TROUBLESHOOTING_MANUAL",
                                !.pasos_realizados =
                                   <<PasoDe("ont_estado", onu_status_str)>>]),
                   re, tareas, <<WaCli(phone, "guia_manual")>>, <<>>, so)
           ELSE IF onu_status_str = "online" /\ SenalDegradada(senal_rx)
                   /\ s.serial_ont # Nulo
           THEN LET s2 == [s EXCEPT !.fase = "REBOOT_PENDIENTE",
                                    !.pasos_realizados =
                                       <<PasoDe("senal_degradada", "")>>]
                IN  /\ PuedeLanzar
                    /\ SoloClienteSo(phone, mensaje, "senal_degradada", Guardar(phone, s2),
                                   re, tareas \cup {Tarea(phone, s2)},
                                   <<WaCli(phone, "reinicio_remoto")>>, <<>>, so)
           ELSE SoloClienteSo(phone, mensaje, "menu",
                   Guardar(phone,
                      [s EXCEPT !.fase = "TROUBLESHOOTING",
                                !.pasos_realizados =
                                   <<PasoDe("menu_desplegado", "")>>]),
                   re, tareas, <<WaCli(phone, "lista_kpi")>>, <<>>, so)

\* Variant: the phase written before re-entering is misspelt.
AEscalarMal(s, kpi, destino, datos) ==
    [s EXCEPT !.kpi_activo = kpi, !.destino_escalado = destino,
              !.datos_tecnicos = datos, !.fase = "ESCALANDO"]

\* The session a branch saves right before it re-enters in phase ESCALADO.
AEscalar(s, kpi, destino, datos) ==
    [s EXCEPT !.kpi_activo = kpi, !.destino_escalado = destino,
              !.datos_tecnicos = datos, !.fase = "ESCALADO"]

\* Lines 1111-1154.  estado: SmartOLT's answer to the re-check.
FaseTroubleshootingManual(phone, mensaje, re, estado) ==
    LET s == GetSession(sesiones, phone)
        ont_post == IF s.serial_ont # Nulo THEN estado ELSE Nulo
        estado_post == IF ont_post # Nulo THEN ont_post ELSE "offline"
        so == IF s.serial_ont # Nulo THEN <<SoLlamada("status", estado)>>
                                     ELSE <<>>
    IN  /\ s.fase = "TROUBLESHOOTING_MANUAL"
        /\ (s.serial_ont = Nulo \/ EsAfirmativo(mensaje)) => estado = Nulo
        /\ IF EsAfirmativo(mensaje)
           THEN /\ PuedeReentrar(re)
                /\ SoloCliente(phone, mensaje, "offline_sin_causa",
                      Guardar(phone,
                         AEscalar(s, "ont_offline_sin_causa_aparente", "TECNICO",
                                  <<"offline_sin_causa">>)),
                      Reentrar(re, phone, mensaje), tareas, <<>>, <<>>)
           ELSE IF estado_post = "online"
           THEN SoloClienteSo(phone, mensaje, "volvio_online",
                   Guardar(phone, [s EXCEPT !.fase = "CSAT"]), re, tareas,
                   <<WaCli(phone, "volvio_online")>>, <<>>, so)
           ELSE /\ PuedeReentrar(re)
                /\ SoloClienteSo(phone, mensaje, "offline_confirmado",
                      Guardar(phone,
                         AEscalar(s, "ont_offline_confirmado", "TECNICO",
                                  <<"offline_confirmado">>)),
                      Reentrar(re, phone, mensaje), tareas, <<>>, <<>>, so)

ConPaso(s, paso) == [s EXCEPT !.pasos_realizados = Append(@, paso)]

\* Variant: "pages do not load" is escalated to the technician.
FaseTroubleshootingTodoTecnico(phone, mensaje, re, estado) ==
    LET s == GetSession(sesiones, phone)
        k == [ConPaso(s, PasoDe("msg", mensaje)) EXCEPT !.kpi_activo = mensaje]
        ont_status == IF s.serial_ont # Nulo THEN estado ELSE Nulo
        onu_status_str == IF ont_status # Nulo THEN ont_status ELSE "offline"
        so == IF s.serial_ont # Nulo THEN <<SoLlamada("status", estado)>>
                                     ELSE <<>>
        dump == IF s.serial_ont # Nulo
                THEN <<SoLlamada("full_status", "raw")>> ELSE <<>>
    IN  /\ s.fase = "TROUBLESHOOTING"
        /\ (s.serial_ont = Nulo \/ mensaje # "kpi_no_internet") => estado = Nulo
        /\ EsKpi(mensaje) => Len(s.pasos_realizados) < MaxPasos
        /\ IF ~EsKpi(mensaje)
           THEN SoloCliente(phone, mensaje, "no_es_kpi", Base(phone), re, tareas,
                            <<WaCli(phone, "seleccione_opcion")>>, <<>>)
           ELSE IF mensaje \in {"kpi_lento_todo", "kpi_wifi_lento", "kpi_lag"}
           THEN IF s.serial_ont # Nulo
                THEN LET s2 == [k EXCEPT !.destino_escalado = "TECNICO",
                                         !.fase = "REBOOT_PENDIENTE"]
                     IN  /\ PuedeLanzar
                         /\ SoloCliente(phone, mensaje, "kpi_velocidad",
                               Guardar(phone, s2), re,
                               tareas \cup {Tarea(phone, s2)},
                               <<WaCli(phone, "reinicio_velocidad")>>, <<>>)
                ELSE /\ PuedeReentrar(re)
                     /\ SoloCliente(phone, mensaje, "kpi_velocidad_sin_serial",
                           Guardar(phone,
                              AEscalar(k, mensaje, "TECNICO",
                                       <<"kpi_sin_serial", mensaje>>)),
                           Reentrar(re, phone, mensaje), tareas, <<>>, <<>>)
           ELSE IF mensaje = "kpi_no_internet"
           THEN IF EsCritico(onu_status_str)
                THEN /\ PuedeReentrar(re)
                     /\ SoloClienteSo(phone, mensaje, "no_internet_critico",
                           Guardar(phone,
                              AEscalar(k, mensaje, "TECNICO",
                                       <<"sin_internet", onu_status_str>>)),
                           Reentrar(re, phone, mensaje), tareas, <<>>, <<>>, so)
                ELSE /\ Len(s.pasos_realizados) + 2 <= MaxPasos
                     /\ SoloClienteSo(phone, mensaje, "no_internet_preguntas",
                           Guardar(phone,
                              [ConPaso(k, PasoDe("ont_status_al_kpi",
                                                 onu_status_str))
                                  EXCEPT !.destino_escalado = "TECNICO",
                                         !.fase = "ESPERANDO_PREGUNTAS_NOINET"]),
                           re, tareas, <<WaCli(phone, "pregunta_luces")>>, <<>>,
                           so)
           ELSE IF mensaje \in {"kpi_intermitente", "kpi_dns"}
           THEN /\ PuedeReentrar(re)
                /\ SoloClienteSo(phone, mensaje, mensaje,
                      Guardar(phone,
                         AEscalar(k, mensaje,
                                  "TECNICO",
                                  <<"full_status_ping", mensaje>>)),
                      Reentrar(re, phone, mensaje), tareas,
                      <<WaCli(phone, "revisando")>>, <<>>, dump)
           ELSE IF mensaje = "kpi_wifi_no_aparece"
           THEN /\ PuedeReentrar(re)
                /\ SoloCliente(phone, mensaje, mensaje,
                      Guardar(phone,
                         AEscalar(k, mensaje, "NOC", <<"wifi_no_aparece">>)),
                      Reentrar(re, phone, mensaje), tareas, <<>>, <<>>)
           ELSE SoloCliente(phone, mensaje, "kpi_sin_rama", Base(phone), re, tareas,
                            <<>>, <<>>)

\* Variant: a speed code starts the remote reboot without asking for the
\* serial.
FaseTroubleshootingSinSerial(phone, mensaje, re, estado) ==
    LET s == GetSession(sesiones, phone)
        k == [ConPaso(s, PasoDe("msg", mensaje)) EXCEPT !.kpi_activo = mensaje]
        ont_status == IF s.serial_ont # Nulo THEN estado ELSE Nulo
        onu_status_str == IF ont_status # Nulo THEN ont_status ELSE "offline"
        so == IF s.serial_ont # Nulo THEN <<SoLlamada("status", estado)>>
                                     ELSE <<>>
        dump == IF s.serial_ont # Nulo
                THEN <<SoLlamada("full_status", "raw")>> ELSE <<>>
    IN  /\ s.fase = "TROUBLESHOOTING"
        /\ (s.serial_ont = Nulo \/ mensaje # "kpi_no_internet") => estado = Nulo
        /\ EsKpi(mensaje) => Len(s.pasos_realizados) < MaxPasos
        /\ IF ~EsKpi(mensaje)
           THEN SoloCliente(phone, mensaje, "no_es_kpi", Base(phone), re, tareas,
                            <<WaCli(phone, "seleccione_opcion")>>, <<>>)
           ELSE IF mensaje \in {"kpi_lento_todo", "kpi_wifi_lento", "kpi_lag"}
           THEN IF TRUE
                THEN LET s2 == [k EXCEPT !.destino_escalado = "TECNICO",
                                         !.fase = "REBOOT_PENDIENTE"]
                     IN  /\ PuedeLanzar
                         /\ SoloCliente(phone, mensaje, "kpi_velocidad",
                               Guardar(phone, s2), re,
                               tareas \cup {Tarea(phone, s2)},
                               <<WaCli(phone, "reinicio_velocidad")>>, <<>>)
                ELSE /\ PuedeReentrar(re)
                     /\ SoloCliente(phone, mensaje, "kpi_velocidad_sin_serial",
                           Guardar(phone,
                              AEscalar(k, mensaje, "TECNICO",
                                       <<"kpi_sin_serial", mensaje>>)),
                           Reentrar(re, phone, mensaje), tareas, <<>>, <<>>)
           ELSE IF mensaje = "kpi_no_internet"
           THEN IF EsCritico(onu_status_str)
                THEN /\ PuedeReentrar(re)
                     /\ SoloClienteSo(phone, mensaje, "no_internet_critico",
                           Guardar(phone,
                              AEscalar(k, mensaje, "TECNICO",
                                       <<"sin_internet", onu_status_str>>)),
                           Reentrar(re, phone, mensaje), tareas, <<>>, <<>>, so)
                ELSE /\ Len(s.pasos_realizados) + 2 <= MaxPasos
                     /\ SoloClienteSo(phone, mensaje, "no_internet_preguntas",
                           Guardar(phone,
                              [ConPaso(k, PasoDe("ont_status_al_kpi",
                                                 onu_status_str))
                                  EXCEPT !.destino_escalado = "TECNICO",
                                         !.fase = "ESPERANDO_PREGUNTAS_NOINET"]),
                           re, tareas, <<WaCli(phone, "pregunta_luces")>>, <<>>,
                           so)
           ELSE IF mensaje \in {"kpi_intermitente", "kpi_dns"}
           THEN /\ PuedeReentrar(re)
                /\ SoloClienteSo(phone, mensaje, mensaje,
                      Guardar(phone,
                         AEscalar(k, mensaje,
                                  IF mensaje = "kpi_dns" THEN "NOC" ELSE "TECNICO",
                                  <<"full_status_ping", mensaje>>)),
                      Reentrar(re, phone, mensaje), tareas,
                      <<WaCli(phone, "revisando")>>, <<>>, dump)
           ELSE IF mensaje = "kpi_wifi_no_aparece"
           THEN /\ PuedeReentrar(re)
                /\ SoloCliente(phone, mensaje, mensaje,
                      Guardar(phone,
                         AEscalar(k, mensaje, "NOC", <<"wifi_no_aparece">>)),
                      Reentrar(re, phone, mensaje), tareas, <<>>, <<>>)
           ELSE SoloCliente(phone, mensaje, "kpi_sin_rama", Base(phone), re, tareas,
                            <<>>, <<>>)

\* Lines 1157-1280.  estado: SmartOLT's answer for kpi_no_internet.
FaseTroubleshooting(phone, mensaje, re, estado) ==
    LET s == GetSession(sesiones, phone)
        k == [ConPaso(s, PasoDe("msg", mensaje)) EXCEPT !.kpi_activo = mensaje]
        ont_status == IF s.serial_ont # Nulo THEN estado ELSE Nulo
        onu_status_str == IF ont_status # Nulo THEN ont_status ELSE "offline"
        so == IF s.serial_ont # Nulo THEN <<SoLlamada("status", estado)>>
                                     ELSE <<>>
        dump == IF s.serial_ont # Nulo
                THEN <<SoLlamada("full_status", "raw")>> ELSE <<>>
    IN  /\ s.fase = "TROUBLESHOOTING"
        /\ (s.serial_ont = Nulo \/ mensaje # "kpi_no_internet") => estado = Nulo
        /\ EsKpi(mensaje) => Len(s.pasos_realizados) < MaxPasos
        /\ IF ~EsKpi(mensaje)
           THEN SoloCliente(phone, mensaje, "no_es_kpi", Base(phone), re, tareas,
                            <<WaCli(phone, "seleccione_opcion")>>, <<>>)
           ELSE IF mensaje \in {"kpi_lento_todo", "kpi_wifi_lento", "kpi_lag"}
           THEN IF s.serial_ont # Nulo
                THEN LET s2 == [k EXCEPT !.destino_escalado = "TECNICO",
                                         !.fase = "REBOOT_PENDIENTE"]
                     IN  /\ PuedeLanzar
                         /\ SoloCliente(phone, mensaje, "kpi_velocidad",
                               Guardar(phone, s2), re,
                               tareas \cup {Tarea(phone, s2)},
                               <<WaCli(phone, "reinicio_velocidad")>>, <<>>)
                ELSE /\ PuedeReentrar(re)
                     /\ SoloCliente(phone, mensaje, "kpi_velocidad_sin_serial",
                           Guardar(phone,
                              AEscalar(k, mensaje, "TECNICO",
                                       <<"kpi_sin_serial", mensaje>>)),
                           Reentrar(re, phone, mensaje), tareas, <<>>, <<>>)
           ELSE IF mensaje = "kpi_no_internet"
           THEN IF EsCritico(onu_status_str)
                THEN /\ PuedeReentrar(re)
                     /\ SoloClienteSo(phone, mensaje, "no_internet_critico",
                           Guardar(phone,
                              AEscalar(k, mensaje, "TECNICO",
                                       <<"sin_internet", onu_status_str>>)),
                           Reentrar(re, phone, mensaje), tareas, <<>>, <<>>, so)
                ELSE /\ Len(s.pasos_realizados) + 2 <= MaxPasos
                     /\ SoloClienteSo(phone, mensaje, "no_internet_preguntas",
                           Guardar(phone,
                              [ConPaso(k, PasoDe("ont_status_al_kpi",
                                                 onu_status_str))
                                  EXCEPT !.destino_escalado = "TECNICO",
                                         !.fase = "ESPERANDO_PREGUNTAS_NOINET"]),
                           re, tareas, <<WaCli(phone, "pregunta_luces")>>, <<>>,
                           so)
           ELSE IF mensaje \in {"kpi_intermitente", "kpi_dns"}
           THEN /\ PuedeReentrar(re)
                /\ SoloClienteSo(phone, mensaje, mensaje,
                      Guardar(phone,
                         AEscalar(k, mensaje,
                                  IF mensaje = "kpi_dns" THEN "NOC" ELSE "TECNICO",
                                  <<"full_status_ping", mensaje>>)),
                      Reentrar(re, phone, mensaje), tareas,
                      <<WaCli(phone, "revisando")>>, <<>>, dump)
           ELSE IF mensaje = "kpi_wifi_no_aparece"
           THEN /\ PuedeReentrar(re)
                /\ SoloCliente(phone, mensaje, mensaje,
                      Guardar(phone,
                         AEscalar(k, mensaje, "NOC", <<"wifi_no_aparece">>)),
                      Reentrar(re, phone, mensaje), tareas, <<>>, <<>>)
           ELSE SoloCliente(phone, mensaje, "kpi_sin_rama", Base(phone), re, tareas,
                            <<>>, <<>>)

\* next(p for p in pasos if p.startswith("luces:")), without the prefix.
PrimerLuces(pasos) ==
    LET idx == {i \in 1..Len(pasos) : pasos[i].k = "luces"}
    IN  IF idx = {} THEN "desconocido"
        ELSE pasos[CHOOSE i \in idx : \A j \in idx : i <= j].v

\* Lines 1283-1315.
FaseEsperandoPreguntasNoinet(phone, mensaje, re) ==
    LET s == GetSession(sesiones, phone)
        a == ConPaso(s, PasoDe("luces", mensaje))
    IN  /\ s.fase = "ESPERANDO_PREGUNTAS_NOINET"
        /\ Len(s.pasos_realizados) < MaxPasos
        /\ IF EsLuces(mensaje)
           THEN SoloCliente(phone, mensaje, "luces", Guardar(phone, a), re, tareas,
                            <<WaCli(phone, "pregunta_corte")>>, <<>>)
           ELSE /\ PuedeReentrar(re)
                /\ SoloCliente(phone, mensaje, "corte",
                      Guardar(phone,
                         AEscalar(a, a.kpi_activo, "TECNICO",
                                  <<"sin_internet_online",
                                    PrimerLuces(a.pasos_realizados),
                                    IF mensaje = "corte_si" THEN "Si" ELSE "No">>)),
                      Reentrar(re, phone, mensaje), tareas, <<>>, <<>>)

\* Variant: the score closes the ticket and the conversation stays in CSAT.
FaseCsatSinBorrar(phone, mensaje, re, llm) ==
    LET s == GetSession(sesiones, phone)
    IN  /\ s.fase = "CSAT"
        /\ IF EsCalificacion(mensaje)
           THEN /\ ~llm
                /\ SoloCliente(phone, mensaje, "calificacion", Base(phone), re,
                               tareas, <<WaCli(phone, "gracias")>>,
                               IF s.ticket_id # NoTicket
                                  THEN <<LlamadaCierre(s.ticket_id,
                                                       MotivoCsat(mensaje))>>
                                  ELSE <<>>)
           ELSE /\ PuedeGlm(s, llm)
                /\ SoloCliente(phone, mensaje, "pedir_calificacion",
                               Guardar(phone, TrasGlm(s, llm)), re, tareas,
                               <<WaCli(phone, "botones_csat")>>, <<>>)

\* Lines 1405-1430.  tope: the transcript length up to which the model
\* follows the conversation.
FaseCsatHasta(phone, mensaje, re, llm, tope) ==
    LET s == GetSession(sesiones, phone)
    IN  /\ s.fase = "CSAT"
        /\ IF EsCalificacion(mensaje)
           THEN /\ ~llm
                /\ SoloCliente(phone, mensaje, "calificacion", Del(sesiones, phone), re,
                               tareas, <<WaCli(phone, "gracias")>>,
                               IF s.ticket_id # NoTicket
                                  THEN <<LlamadaCierre(s.ticket_id,
                                                       MotivoCsat(mensaje))>>
                                  ELSE <<>>)
           ELSE /\ llm => s.historial + 2 <= tope
                /\ SoloCliente(phone, mensaje, "pedir_calificacion",
                               Guardar(phone, TrasGlm(s, llm)), re, tareas,
                               <<WaCli(phone, "botones_csat")>>, <<>>)

FaseCsat(phone, mensaje, re, llm) ==
    FaseCsatHasta(phone, mensaje, re, llm, MaxHist)

\* Lines 1433-1443: the reply is sent, the session is not saved.
FaseEsperandoTecnico(phone, mensaje, re, llm) ==
    LET s == GetSession(sesiones, phone)
    IN  /\ s.fase = "ESPERANDO_TECNICO"
        /\ SoloCliente(phone, mensaje, "espera", Base(phone), re, tareas,
                       <<WaCli(phone, IF llm THEN "espera" ELSE "disculpa")>>,
                       <<>>)

FasesConRama ==
    {"IDENTIFICACION", "DIAGNOSTICO_RED", "TROUBLESHOOTING_MANUAL",
     "TROUBLESHOOTING", "ESPERANDO_PREGUNTAS_NOINET", "ESCALADO", "CSAT",
     "ESPERANDO_TECNICO"}

\* Variant: a message in a phase no branch names starts the conversation over.
FaseDefaultReinicia(phone, mensaje, re) ==
    LET s == GetSession(sesiones, phone)
    IN  /\ s.fase \notin FasesConRama
        /\ SoloCliente(phone, mensaje, "default",
                       Guardar(phone, [s EXCEPT !.fase = "IDENTIFICACION"]),
                       re, tareas,
                       <<WaCli(phone, "caso_en_atencion")>>, <<>>)

\* Lines 1446-1447: no branch names the phase.
FaseDefault(phone, mensaje, re) ==
    LET s == GetSession(sesiones, phone)
    IN  /\ s.fase \notin FasesConRama
        /\ SoloCliente(phone, mensaje, "default", Base(phone), re, tareas,
                       <<WaCli(phone, "caso_en_atencion")>>, <<>>)

----------------------------------------------------------------------------
(* Escalation and ticketing *)

\* mw_crear_ticket: the id of the new ticket, or None.
CrearTicket(ok) == IF ok THEN TicketId(tickets + 1) ELSE NoTicket

PuedeCrear(ok) == ok => tickets < MaxTickets

\* notificar_ticket_a_tecnico: the technician session it saves, the brief
\* through the window/queue layer, the confirmation buttons sent directly.
NotificarTicketATecnico(tecnico_phone, ticket_id, cliente_phone) ==
    LET f == ConFallback(ventana, pendientes, tecnico_phone,
                         Notificacion("nuevo_ticket", ticket_id), reloj)
    IN  [tsesiones |-> Put(tsesiones, tecnico_phone,
                           TecnicoSession(ticket_id, cliente_phone, reloj)),
         pendientes |-> f.pend,
         wa_tec |-> f.wa \o
                    <<WaTec(tecnico_phone, "boton_confirmar", ticket_id, NoTs)>>,
         cola |-> IF f.cola THEN <<Notificacion("nuevo_ticket", ticket_id)>>
                            ELSE <<>>]

\* Lines 1386-1398: the NOC gets one message and no closing flow.
NotificarNoc(ticket_id) ==
    LET f == ConFallback(ventana, pendientes, NOC_WHATSAPP,
                         Notificacion("nuevo_ticket_noc", ticket_id), reloj)
    IN  [tsesiones |-> tsesiones, pendientes |-> f.pend, wa_tec |-> f.wa,
         cola |-> IF f.cola THEN <<Notificacion("nuevo_ticket_noc", ticket_id)>>
                            ELSE <<>>]

SinNotificar ==
    [tsesiones |-> tsesiones, pendientes |-> pendientes, wa_tec |-> <<>>,
     cola |-> <<>>]

\* Variant: the escalation ends by calling procesar_mensaje once more.
FaseEscaladoReentra(phone, mensaje, re, ok) ==
    LET s == GetSession(sesiones, phone)
        ticket_id == CrearTicket(ok)
        destino == s.destino_escalado
        numero_destino ==
            IF destino = "NOC" THEN NOC_WHATSAPP ELSE TECNICO_WHATSAPP
    IN  /\ s.fase = "ESCALADO"
        /\ PuedeCrear(ok)
        /\ \E n \in {IF ticket_id = NoTicket THEN SinNotificar
                     ELSE IF destino = "TECNICO"
                     THEN NotificarTicketATecnico(numero_destino, ticket_id,
                                                  phone)
                     ELSE NotificarNoc(ticket_id)} :
              /\ tsesiones' = n.tsesiones
              /\ pendientes' = n.pendientes
              /\ ult' = UltCliente(phone, mensaje, "escalado", n.wa_tec,
                                   <<WaCli(phone, "ticket_registrado")>>,
                                   <<>>, 1, <<>>)
        /\ sesiones' = Guardar(phone, [s EXCEPT !.ticket_id = ticket_id,
                                                !.fase = "ESPERANDO_TECNICO"])
        /\ tickets' = IF ok THEN tickets + 1 ELSE tickets
        /\ reentradas' = Reentrar(re, phone, mensaje)
        /\ UNCHANGED <<ventana, tecnicos, reloj, tareas, cierres, envios,
                       flushes, entregados, encolados>>

\* Variant: without a ticket id the customer gets no reply.
FaseEscaladoSinAcuse(phone, mensaje, re, ok) ==
    LET s == GetSession(sesiones, phone)
        ticket_id == CrearTicket(ok)
        destino == s.destino_escalado
        numero_destino ==
            IF destino = "NOC" THEN NOC_WHATSAPP ELSE TECNICO_WHATSAPP
    IN  /\ s.fase = "ESCALADO"
        /\ PuedeCrear(ok)
        /\ \E n \in {IF ticket_id = NoTicket THEN SinNotificar
                     ELSE IF destino = "TECNICO"
                     THEN NotificarTicketATecnico(numero_destino, ticket_id,
                                                  phone)
                     ELSE NotificarNoc(ticket_id)} :
              /\ tsesiones' = n.tsesiones
              /\ pendientes' = n.pendientes
              /\ ult' = UltCliente(phone, mensaje, "escalado", n.wa_tec,
                                   IF ticket_id = NoTicket THEN <<>>
                                   ELSE <<WaCli(phone, "ticket_registrado")>>,
                                   <<>>, 1, <<>>)
        /\ sesiones' = Guardar(phone, [s EXCEPT !.ticket_id = ticket_id,
                                                !.fase = "ESPERANDO_TECNICO"])
        /\ tickets' = IF ok THEN tickets + 1 ELSE tickets
        /\ reentradas' = re
        /\ UNCHANGED <<ventana, tecnicos, reloj, tareas, cierres, envios,
                       flushes, entregados, encolados>>

\* Lines 1318-1402.  ok: whether MikroWisp created the ticket.
FaseEscalado(phone, mensaje, re, ok) ==
    LET s == GetSession(sesiones, phone)
        ticket_id == CrearTicket(ok)
        destino == s.destino_escalado
        numero_destino ==
            IF destino = "NOC" THEN NOC_WHATSAPP ELSE TECNICO_WHATSAPP
    IN  /\ s.fase = "ESCALADO"
        /\ PuedeCrear(ok)
        /\ \E n \in {IF ticket_id = NoTicket THEN SinNotificar
                     ELSE IF destino = "TECNICO"
                     THEN NotificarTicketATecnico(numero_destino, ticket_id,
                                                  phone)
                     ELSE NotificarNoc(ticket_id)} :
              /\ tsesiones' = n.tsesiones
              /\ pendientes' = n.pendientes
              /\ ult' = UltCliente(phone, mensaje, "escalado", n.wa_tec,
                                   <<WaCli(phone, "ticket_registrado")>>,
                                   <<>>, 1, <<>>)
        /\ sesiones' = Guardar(phone, [s EXCEPT !.ticket_id = ticket_id,
                                                !.fase = "ESPERANDO_TECNICO"])
        /\ tickets' = IF ok THEN tickets + 1 ELSE tickets
        /\ reentradas' = re
        /\ UNCHANGED <<ventana, tecnicos, reloj, tareas, cierres, envios,
                       flushes, entregados, encolados>>

----------------------------------------------------------------------------
(* Background verification task *)

\* Variant: a rejected reboot command is followed by the wait and the check.
TareaRebootSigue(t, exito) ==
    LET s == [t.session EXCEPT !.reboot_ejecutado = TRUE]
        so == <<SoLlamada("reboot", exito)>>
    IN  /\ t \in tareas
        /\ t.pc = "reboot"
        /\ IF exito
           THEN /\ sesiones' = sesiones
                /\ tareas' = (tareas \ {t}) \cup
                             {[t EXCEPT !.session = s, !.pc = "espera"]}
                /\ ult' = [Ult("tarea", t.phone, "reboot_aceptado", <<>>,
                               <<WaCli(t.phone, "reiniciando")>>, <<>>, 0)
                              EXCEPT !.so = so]
           ELSE /\ sesiones' = Guardar(t.phone,
                                       [s EXCEPT !.fase = "TROUBLESHOOTING"])
                /\ tareas' = (tareas \ {t}) \cup
                             {[t EXCEPT !.session = s, !.pc = "espera"]}
                /\ ult' = [Ult("tarea", t.phone, "reboot_fallido", <<>>,
                               <<WaCli(t.phone, "reinicio_manual")>>, <<>>, 0)
                              EXCEPT !.so = so,
                                     !.antes = FaseGuardada(t.phone)]
        /\ UNCHANGED <<tsesiones, ventana, pendientes, tecnicos, reloj, tickets,
                       reentradas, cierres, envios, flushes, entregados,
                       encolados>>

\* Lines 1459-1469: the reboot command; exito is so_reboot_ont's answer.
TareaReboot(t, exito) ==
    LET s == [t.session EXCEPT !.reboot_ejecutado = TRUE]
        so == <<SoLlamada("reboot", exito)>>
    IN  /\ t \in tareas
        /\ t.pc = "reboot"
        /\ IF exito
           THEN /\ sesiones' = sesiones
                /\ tareas' = (tareas \ {t}) \cup
                             {[t EXCEPT !.session = s, !.pc = "espera"]}
                /\ ult' = [Ult("tarea", t.phone, "reboot_aceptado", <<>>,
                               <<WaCli(t.phone, "reiniciando")>>, <<>>, 0)
                              EXCEPT !.so = so]
           ELSE /\ sesiones' = Guardar(t.phone,
                                       [s EXCEPT !.fase = "TROUBLESHOOTING"])
                /\ tareas' = tareas \ {t}
                /\ ult' = [Ult("tarea", t.phone, "reboot_fallido", <<>>,
                               <<WaCli(t.phone, "reinicio_manual")>>, <<>>, 0)
                              EXCEPT !.so = so,
                                     !.antes = FaseGuardada(t.phone)]
        /\ UNCHANGED <<tsesiones, ventana, pendientes, tecnicos, reloj, tickets,
                       reentradas, cierres, envios, flushes, entregados,
                       encolados>>

\* Variant: the brief is sent to the technician without looking at the
\* window.
TareaVerificarDirecto(t, estado, senal, ok) ==
    LET s == t.session
        estado_post == IF estado # Nulo THEN estado ELSE "offline"
        resuelto == estado_post = "online" /\ SenalOk(senal)
        ticket_id == CrearTicket(ok)
        f == IF ticket_id # NoTicket
             THEN [pend |-> pendientes,
                   wa |-> <<WaTec(TECNICO_WHATSAPP, "post_reboot", ticket_id,
                                  NoTs)>>,
                   cola |-> FALSE]
             ELSE [pend |-> pendientes, wa |-> <<>>, cola |-> FALSE]
        so == <<SoLlamada("status", estado), SoLlamada("signal", senal)>>
    IN  /\ t \in tareas
        /\ t.pc = "espera"
        /\ tareas' = tareas \ {t}
        /\ IF resuelto
           THEN /\ ~ok
                /\ sesiones' = Guardar(t.phone, [s EXCEPT !.fase = "CSAT"])
                /\ ult' = [Ult("tarea", t.phone, "reboot_resuelto", <<>>,
                               <<WaCli(t.phone, "reinicio_correcto")>>, <<>>, 0)
                              EXCEPT !.so = so,
                                     !.antes = FaseGuardada(t.phone)]
                /\ UNCHANGED <<pendientes, tickets>>
           ELSE /\ PuedeCrear(ok)
                /\ sesiones' = Guardar(t.phone,
                      [s EXCEPT !.fase = "ESPERANDO_TECNICO",
                                !.destino_escalado = "TECNICO",
                                !.datos_tecnicos = <<"post_reboot", estado_post>>,
                                !.ticket_id = ticket_id])
                /\ tickets' = IF ok THEN tickets + 1 ELSE tickets
                /\ pendientes' = f.pend
                /\ ult' = [Ult("tarea", t.phone, "reboot_escalado", f.wa,
                               <<WaCli(t.phone, "ticket_post_reboot")>>, <<>>, 1)
                              EXCEPT !.so = so,
                                     !.antes = FaseGuardada(t.phone)]
        /\ UNCHANGED <<tsesiones, ventana, tecnicos, reloj, reentradas, cierres,
                       envios, flushes, entregados, encolados>>

\* Variant: the task saves only when the stored phase is still the one it
\* left, REBOOT_PENDIENTE.
TareaVerificarCuidadosa(t, estado, senal, ok) ==
    LET s == t.session
        estado_post == IF estado # Nulo THEN estado ELSE "offline"
        resuelto == estado_post = "online" /\ SenalOk(senal)
        ticket_id == CrearTicket(ok)
        f == IF ticket_id # NoTicket
             THEN ConFallback(ventana, pendientes, TECNICO_WHATSAPP,
                              Notificacion("post_reboot", ticket_id), reloj)
             ELSE [pend |-> pendientes, wa |-> <<>>, cola |-> FALSE]
        so == <<SoLlamada("status", estado), SoLlamada("signal", senal)>>
    IN  /\ t \in tareas
        /\ t.pc = "espera"
        /\ tareas' = tareas \ {t}
        /\ IF resuelto
           THEN /\ ~ok
                /\ sesiones' = IF FaseGuardada(t.phone) = "REBOOT_PENDIENTE"
                               THEN Guardar(t.phone, [s EXCEPT !.fase = "CSAT"])
                               ELSE sesiones
                /\ ult' = [Ult("tarea", t.phone, "reboot_resuelto", <<>>,
                               <<WaCli(t.phone, "reinicio_correcto")>>, <<>>, 0)
                              EXCEPT !.so = so,
                                     !.antes = FaseGuardada(t.phone)]
                /\ UNCHANGED <<pendientes, tickets>>
           ELSE /\ PuedeCrear(ok)
                /\ sesiones' = IF FaseGuardada(t.phone) = "REBOOT_PENDIENTE"
                               THEN Guardar(t.phone,
                      [s EXCEPT !.fase = "ESPERANDO_TECNICO",
                                !.destino_escalado = "TECNICO",
                                !.datos_tecnicos = <<"post_reboot", estado_post>>,
                                !.ticket_id = ticket_id])
                               ELSE sesiones
                /\ tickets' = IF ok THEN tickets + 1 ELSE tickets
                /\ pendientes' = f.pend
                /\ ult' = [Ult("tarea", t.phone, "reboot_escalado", f.wa,
                               <<WaCli(t.phone, "ticket_post_reboot")>>, <<>>, 1)
                              EXCEPT !.so = so,
                                     !.antes = FaseGuardada(t.phone)]
        /\ UNCHANGED <<tsesiones, ventana, tecnicos, reloj, reentradas, cierres,
                       envios, flushes, entregados, encolados>>

\* Lines 1471-1541: after the wait.  estado, senal: SmartOLT's answers;
\* ok: whether MikroWisp created the ticket.
TareaVerificar(t, estado, senal, ok) ==
    LET s == t.session
        estado_post == IF estado # Nulo THEN estado ELSE "offline"
        resuelto == estado_post = "online" /\ SenalOk(senal)
        ticket_id == CrearTicket(ok)
        f == IF ticket_id # NoTicket
             THEN ConFallback(ventana, pendientes, TECNICO_WHATSAPP,
                              Notificacion("post_reboot", ticket_id), reloj)
             ELSE [pend |-> pendientes, wa |-> <<>>, cola |-> FALSE]
        so == <<SoLlamada("status", estado), SoLlamada("signal", senal)>>
    IN  /\ t \in tareas
        /\ t.pc = "espera"
        /\ tareas' = tareas \ {t}
        /\ IF resuelto
           THEN /\ ~ok
                /\ sesiones' = Guardar(t.phone, [s EXCEPT !.fase = "CSAT"])
                /\ ult' = [Ult("tarea", t.phone, "reboot_resuelto", <<>>,
                               <<WaCli(t.phone, "reinicio_correcto")>>, <<>>, 0)
                              EXCEPT !.so = so,
                                     !.antes = FaseGuardada(t.phone)]
                /\ UNCHANGED <<pendientes, tickets>>
           ELSE /\ PuedeCrear(ok)
                /\ sesiones' = Guardar(t.phone,
                      [s EXCEPT !.fase = "ESPERANDO_TECNICO",
                                !.destino_escalado = "TECNICO",
                                !.datos_tecnicos = <<"post_reboot", estado_post>>,
                                !.ticket_id = ticket_id])
                /\ tickets' = IF ok THEN tickets + 1 ELSE tickets
                /\ pendientes' = f.pend
                /\ ult' = [Ult("tarea", t.phone, "reboot_escalado", f.wa,
                               <<WaCli(t.phone, "ticket_post_reboot")>>, <<>>, 1)
                              EXCEPT !.so = so,
                                     !.antes = FaseGuardada(t.phone)]
        /\ UNCHANGED <<tsesiones, ventana, tecnicos, reloj, reentradas, cierres,
                       envios, flushes, entregados, encolados>>

----------------------------------------------------------------------------
(* MikroWisp's ticket-closed webhook, lines 2177-2204: the session is saved
   in CSAT; building the prompt then reads the undefined name `mensaje`, the
   NameError is caught by the handler and no message is sent. *)

TicketCerradoPorTecnico(cliente_phone) ==
    /\ sesiones' = Guardar(cliente_phone,
                           [GetSession(sesiones, cliente_phone)
                               EXCEPT !.fase = "CSAT"])
    /\ ult' = Ult("ticket_cerrado", cliente_phone, "csat", <<>>, <<>>, <<>>, 0)
    /\ UNCHANGED <<tsesiones, ventana, pendientes, tecnicos, reloj, tickets,
                   tareas, reentradas, cierres, envios, flushes, entregados,
                   encolados>>

----------------------------------------------------------------------------
(* Time *)

\* The 24 h TTL of ventana_tecnico:<phone> runs out.
ExpiraVentana(phone) ==
    /\ phone \in ventana
    /\ ventana' = ventana \ {phone}
    /\ ult' = Ult("expira_ventana", phone, Nulo, <<>>, <<>>, <<>>, 0)
    /\ UNCHANGED <<sesiones, tsesiones, pendientes, tecnicos, reloj, tickets,
                   tareas, reentradas, cierres, envios, flushes, entregados,
                   encolados>>

Tic ==
    /\ reloj < MaxReloj
    /\ reloj' = reloj + 1
    /\ ult' = Ult("tic", Nulo, Nulo, <<>>, <<>>, <<>>, 0)
    /\ UNCHANGED <<sesiones, tsesiones, ventana, pendientes, tecnicos, tickets,
                   tareas, reentradas, cierres, envios, flushes, entregados,
                   encolados>>

----------------------------------------------------------------------------
(* Inputs *)

Mensajes ==
    {"hola", "123456", "kpi_lento_todo", "kpi_no_internet",
     "kpi_intermitente", "kpi_dns", "kpi_wifi_no_aparece", "kpi_otro",
     "luces_roja", "corte_si", "5"}

\* Unpaid totals and account states of the customer directory.
Saldos == {0, 50000}

EstadosCliente == {"activo", "suspendido"}

Cuentas == {<<saldo, estado>> : saldo \in Saldos, estado \in EstadosCliente}

\* An account in good standing and one cut off for debt.
CuentasTipicas == {<<0, "activo">>, <<50000, "suspendido">>}

\* Readings of onu_signal_1490: none, below, inside and above the window.
Senales == {NoSenal, -30, -15, -5}

Verbos == {"tec_si_", "tec_no_", "tec_llegue_", "tec_listo_"}

TidsCreados == {TicketId(n) : n \in 1..MaxTickets}

Botones(tids) == {Texto("boton", v, <<>>, t) : v \in Verbos, t \in tids}

ComandosAdmin ==
    {Texto("cmd", "!addtec", <<TECNICO_WHATSAPP, "Ana">>, <<>>),
     Texto("cmd", "!addtec", <<TECNICO_WHATSAPP>>, <<>>),
     Texto("cmd", "!deltec", <<TECNICO_WHATSAPP>>, <<>>),
     Texto("cmd", "!listec", <<>>, <<>>),
     Texto("cmd", "!otro", <<>>, <<>>)}

\* What the technician number sends: texts (typed button ids among them),
\* button replies, images that do and do not download, another interactive
\* type, and an administrator command.
MensajesTecnico ==
    {MsgTecnico("text", t, FALSE) :
        t \in Botones(TidsCreados) \cup
              {Texto("fin", "", <<>>, <<>>), Texto("libre", "", <<>>, <<>>),
               Texto("vacio", "", <<>>, <<>>),
               Texto("cmd", "!addtec", <<TECNICO_WHATSAPP, "Ana">>, <<>>)}} \cup
    {MsgTecnico("button_reply", Texto("boton", "tec_si_", <<>>, TicketId(1)),
                FALSE)} \cup
    {MsgTecnico("image", NoTexto, d) : d \in BOOLEAN} \cup
    {MsgTecnico("interactive", NoTexto, FALSE)}

\* What the administrator number sends.
MensajesAdmin == {MsgTecnico("text", t, FALSE) : t \in ComandosAdmin}

MensajesDe(phone) ==
    IF phone = ADMIN_WHATSAPP THEN MensajesAdmin ELSE MensajesTecnico

----------------------------------------------------------------------------
(* The system *)

Init ==
    /\ sesiones = Vacio
    /\ tsesiones = Vacio
    /\ ventana = {}
    /\ pendientes = Vacio
    /\ tecnicos = Vacio
    /\ reloj = 0
    /\ tickets = 0
    /\ tareas = {}
    /\ reentradas = <<>>
    /\ cierres = {}
    /\ envios = {}
    /\ flushes = {}
    /\ entregados = Vacio
    /\ encolados = Vacio
    /\ ult = UltVacio

\* procesar_mensaje: the dispatch on the phase get_session returns.  cuentas:
\* the accounts (unpaid total, state) the directory may hold.
ProcesarMensaje(phone, mensaje, re, cuentas) ==
    \/ \E llm \in BOOLEAN, cliente \in {"no", "con_serial", "sin_serial"},
          cuenta \in cuentas :
          FaseIdentificacion(phone, mensaje, re, llm, cliente, cuenta[1],
                             cuenta[2])
    \/ \E estado \in EstadosDiagnostico, senal \in Senales :
          FaseDiagnosticoRed(phone, mensaje, re, estado, senal)
    \/ \E estado \in EstadosOnt :
          FaseTroubleshootingManual(phone, mensaje, re, estado)
    \/ \E estado \in EstadosOnt :
          FaseTroubleshooting(phone, mensaje, re, estado)
    \/ FaseEsperandoPreguntasNoinet(phone, mensaje, re)
    \/ \E ok \in BOOLEAN : FaseEscalado(phone, mensaje, re, ok)
    \/ \E llm \in BOOLEAN : FaseCsat(phone, mensaje, re, llm)
    \/ \E llm \in BOOLEAN : FaseEsperandoTecnico(phone, mensaje, re, llm)
    \/ FaseDefault(phone, mensaje, re)

Quitar(seq, i) == SubSeq(seq, 1, i - 1) \o SubSeq(seq, i + 1, Len(seq))

\* The webhook hands an inbound customer message to procesar_mensaje.
MensajeCliente ==
    \E phone \in Clientes, mensaje \in Mensajes :
        ProcesarMensaje(phone, mensaje, reentradas, CuentasTipicas)

\* A nested procesar_mensaje call starts.
Reentrada ==
    \E i \in 1..Len(reentradas) :
        ProcesarMensaje(reentradas[i].phone, reentradas[i].mensaje,
                        Quitar(reentradas, i), CuentasTipicas)

Reboot == \E t \in tareas, exito \in BOOLEAN : TareaReboot(t, exito)

Verificar ==
    \E t \in tareas, estado \in EstadosOnt, senal \in Senales, ok \in BOOLEAN :
        TareaVerificar(t, estado, senal, ok)

\* MikroWisp reports the closing of a ticket the customer's conversation
\* holds and no technician of the bot is working on: those the technician
\* closes through the bot.
TicketCerrado ==
    \E c \in Clientes :
        /\ c \in DOMAIN sesiones
        /\ sesiones[c].ticket_id # NoTicket
        /\ \A p \in DOMAIN tsesiones :
              tsesiones[p].ticket_id # sesiones[c].ticket_id
        /\ TicketCerradoPorTecnico(c)

\* A technician who presses the buttons received and answers the interview.
MensajesVisita ==
    {MsgTecnico("text", t, FALSE) :
        t \in Botones(TidsCreados) \cup
              {Texto("fin", "", <<>>, <<>>), Texto("libre", "", <<>>, <<>>)}}

Visita ==
    \E msg \in MensajesVisita : MensajeTecnico(TECNICO_WHATSAPP, msg, FALSE)

\* The administrator registers the technician.
Alta ==
    MensajeTecnico(ADMIN_WHATSAPP,
                   MsgTecnico("text",
                              Texto("cmd", "!addtec",
                                    <<TECNICO_WHATSAPP, "Ana">>, <<>>),
                              FALSE),
                   FALSE)

Cierre == \E c \in cierres, exito \in BOOLEAN : CierreTecnico(c, exito)

\* The whole system: conversations, nested calls, background tasks, the
\* ticket-closed webhook, and a technician who carries visits to their end.
Next ==
    \/ MensajeCliente
    \/ Reentrada
    \/ Reboot
    \/ Verificar
    \/ TicketCerrado
    \/ Alta
    \/ Visita
    \/ Cierre

Spec == Init /\ [][Next]_vars

----------------------------------------------------------------------------
(* The customer side alone: the conversations with every kind of account,
   their nested calls, the background task and the ticket-closed webhook. *)

Conversacion ==
    \E phone \in Clientes, mensaje \in Mensajes :
        ProcesarMensaje(phone, mensaje, reentradas, Cuentas)

Anidada ==
    \E i \in 1..Len(reentradas) :
        ProcesarMensaje(reentradas[i].phone, reentradas[i].mensaje,
                        Quitar(reentradas, i), Cuentas)

NextCliente ==
    \/ Conversacion
    \/ Anidada
    \/ Reboot
    \/ Verificar
    \/ TicketCerrado

SpecCliente == Init /\ [][NextCliente]_vars

----------------------------------------------------------------------------
(* The race of the background task with the other writers of the customer's
   session.  MikroWisp posts the ticket-closed notification with the phone
   it holds for the ticket; here it also arrives while a task of that phone
   is running.  The customers greet, give their contract, choose "pages do
   not load" when shown the menu, wait, and score the service; their
   accounts are in good standing. *)

Carrera ==
    \E phone \in Clientes, mensaje \in {"hola", "123456", "kpi_dns", "5"} :
        ProcesarMensaje(phone, mensaje, reentradas, {<<0, "activo">>})

Aviso == \E t \in tareas : TicketCerradoPorTecnico(t.phone)

NextCarrera ==
    \/ Carrera
    \/ Anidada
    \/ Reboot
    \/ Verificar
    \/ Aviso

SpecCarrera == Init /\ [][NextCarrera]_vars

\* The same under the scheduling of the event loop: a spawned task is run,
\* and after its sleep it is resumed.
SpecCarreraJusta ==
    SpecCarrera /\ WF_vars(Reboot) /\ WF_vars(Verificar)

----------------------------------------------------------------------------
(* The transcript of a long conversation: the same customers, and one who,
   asked for a score, keeps writing something else. *)

Charla ==
    \E phone \in Clientes, llm \in BOOLEAN :
        FaseCsatHasta(phone, "hola", reentradas, llm, MaxTurnos)

NextTranscripcion ==
    \/ Carrera
    \/ Anidada
    \/ Reboot
    \/ Verificar
    \/ Charla

SpecTranscripcion == Init /\ [][NextTranscripcion]_vars

----------------------------------------------------------------------------
(* Inbound messages of one phone handled at the same time.  recibir_mensaje
   hands every message to its own procesar_mensaje run (bg.add_task), and a
   run gives way at each await: the ESCALADO branch is taken here in two
   steps, the read of the session (912) up to the request to MikroWisp
   (1349), and the rest from the answer to the save (1358-1401). *)

\* A run suspended at `await mw_crear_ticket`: it holds the session object
\* it read.
Corrida(phone, mensaje, s) ==
    [phone |-> phone, mensaje |-> mensaje, session |-> s, pc |-> "ticket"]

PuedeSuspender == Cardinality({t \in tareas : t.pc = "ticket"}) < MaxCorridas

\* Lines 912, 1318-1349, for a new inbound message or for a nested call.
EscaladoLee ==
    \E phone \in Clientes :
        /\ GetSession(sesiones, phone).fase = "ESCALADO"
        /\ PuedeSuspender
        /\ \E c \in {Corrida(phone, "hola", GetSession(sesiones, phone))}
                    \cup {Corrida(phone, reentradas[i].mensaje,
                                  GetSession(sesiones, phone)) :
                          i \in {j \in 1..Len(reentradas) :
                                    reentradas[j].phone = phone}} :
              /\ c \notin tareas
              /\ tareas' = tareas \cup {c}
              /\ reentradas' =
                    IF \E i \in 1..Len(reentradas) :
                          /\ reentradas[i].phone = phone
                          /\ reentradas[i].mensaje = c.mensaje
                    THEN Quitar(reentradas,
                                CHOOSE i \in 1..Len(reentradas) :
                                    /\ reentradas[i].phone = phone
                                    /\ reentradas[i].mensaje = c.mensaje)
                    ELSE reentradas
        /\ ult' = Ult("cliente", phone, "escalado_pide", <<>>, <<>>, <<>>, 0)
        /\ UNCHANGED <<sesiones, tsesiones, ventana, pendientes, tecnicos,
                       reloj, tickets, cierres, envios, flushes, entregados,
                       encolados>>

\* Lines 1349-1401: MikroWisp answers, the run acknowledges, notifies and
\* saves the session object it holds.
EscaladoCrea ==
    \E t \in tareas, ok \in BOOLEAN :
        LET s == t.session
            ticket_id == CrearTicket(ok)
            destino == s.destino_escalado
            numero_destino ==
                IF destino = "NOC" THEN NOC_WHATSAPP ELSE TECNICO_WHATSAPP
        IN  /\ t.pc = "ticket"
            /\ PuedeCrear(ok)
            /\ \E n \in {IF ticket_id = NoTicket THEN SinNotificar
                         ELSE IF destino = "TECNICO"
                         THEN NotificarTicketATecnico(numero_destino,
                                                      ticket_id, t.phone)
                         ELSE NotificarNoc(ticket_id)} :
                  /\ tsesiones' = n.tsesiones
                  /\ pendientes' = n.pendientes
                  /\ ult' = UltCliente(t.phone, t.mensaje, "escalado",
                                       n.wa_tec,
                                       <<WaCli(t.phone, "ticket_registrado")>>,
                                       <<>>, 1, <<>>)
            /\ sesiones' = Guardar(t.phone,
                                   [s EXCEPT !.ticket_id = ticket_id,
                                             !.fase = "ESPERANDO_TECNICO"])
            /\ tickets' = IF ok THEN tickets + 1 ELSE tickets
            /\ tareas' = tareas \ {t}
            /\ UNCHANGED <<ventana, tecnicos, reloj, reentradas, cierres,
                           envios, flushes, entregados, encolados>>

\* The customer writes, states the contract, picks a fault of the menu and
\* writes again; no score is sent, so the session is never cleared.
Entrante ==
    \E phone \in Clientes, mensaje \in {"hola", "123456", "kpi_dns"} :
        ProcesarMensaje(phone, mensaje, reentradas, {<<0, "activo">>})

NextSimultaneos ==
    \/ Entrante
    \/ Anidada
    \/ EscaladoLee
    \/ EscaladoCrea
    \/ Reboot
    \/ Verificar

SpecSimultaneos == Init /\ [][NextSimultaneos]_vars

----------------------------------------------------------------------------
(* The technician side.  The customers it serves report a fiber cut: the
   conversation goes greeting, contract, ONT down, manual guide, escalation,
   and the wait for the technician. *)

MensajesAveria == {"hola", "123456", "corte_si"}

ProcesarAveria(phone, mensaje, re) ==
    \/ \E llm \in BOOLEAN, cliente \in {"no", "con_serial"} :
          FaseIdentificacion(phone, mensaje, re, llm, cliente, 0, "activo")
    \/ FaseDiagnosticoRed(phone, mensaje, re, "los", NoSenal)
    \/ FaseTroubleshootingManual(phone, mensaje, re, Nulo)
    \/ \E ok \in BOOLEAN : FaseEscalado(phone, mensaje, re, ok)

AveriaDe(clientes) ==
    \E phone \in clientes, mensaje \in MensajesAveria :
        ProcesarAveria(phone, mensaje, reentradas)

Averia == AveriaDe(Clientes)

ReentradaAveria ==
    \E i \in 1..Len(reentradas) :
        ProcesarAveria(reentradas[i].phone, reentradas[i].mensaje,
                       Quitar(reentradas, i))

EntranteTecnico ==
    \E phone \in TecPhones : \E msg \in MensajesDe(phone), subida \in BOOLEAN :
        MensajeTecnico(phone, msg, subida)

Expira == \E phone \in Canal : ExpiraVentana(phone)

NextTec ==
    \/ Averia
    \/ ReentradaAveria
    \/ EntranteTecnico
    \/ Cierre
    \/ Expira

SpecTec == Init /\ [][NextTec]_vars

\* The same, with a technician who also answers with the button ids of
\* another ticket of MikroWisp, whose number continues the number of the
\* first ticket ("10" after "1"): a button of an older chat message, or the
\* id typed as text.
TicketAjeno == TicketId(1) \o <<0>>

BotonAjeno ==
    /\ TicketAjeno \notin {TicketId(n) : n \in 1..tickets}
    /\ \E msg \in {MsgTecnico("button_reply", t, FALSE) :
                       t \in Botones({TicketAjeno})} :
          MensajeTecnico(TECNICO_WHATSAPP, msg, FALSE)

NextAjeno ==
    \/ BotonAjeno
    \/ Averia
    \/ ReentradaAveria
    \/ EntranteTecnico
    \/ Cierre
    \/ Expira

SpecAjeno == Init /\ [][NextAjeno]_vars

----------------------------------------------------------------------------
(* Several escalations for one technician: two customers report a fiber cut
   while the clock runs, and the technician carries the visits out. *)

ClientesAveria == {"c1", "c2"}

Averias == AveriaDe(ClientesAveria)

NextEsc ==
    \/ Averias
    \/ ReentradaAveria
    \/ Alta
    \/ Visita
    \/ Cierre
    \/ Tic

SpecEsc == Init /\ [][NextEsc]_vars

----------------------------------------------------------------------------
(* The notification layer at the grain of its awaits.  Every Redis call and
   every provider call of wa_send_message_tecnico_con_fallback,
   guardar_ticket_pendiente and entregar_tickets_pendientes is awaited, so
   other handlers run between them.  envios and flushes hold the calls that
   are suspended; encolados and entregados log, per number, the messages
   whose setex has been done and the messages handed to the provider. *)

SoloCapa(rama, numero, wa_tec) ==
    /\ ult' = Ult("capa", numero, rama, wa_tec, <<>>, <<>>, 0)
    /\ UNCHANGED <<sesiones, tsesiones, tecnicos, reloj, tareas, reentradas,
                   cierres>>

\* A caller enters wa_send_message_tecnico_con_fallback with the notification
\* of a new ticket; the window key is read (line 750).
EnvioInicia(numero) ==
    LET mensaje == Notificacion("nuevo_ticket", TicketId(tickets + 1))
    IN  /\ tickets < MaxTickets
        /\ Cardinality(envios) < MaxEnvios
        /\ tickets' = tickets + 1
        /\ IF numero \in ventana
           THEN /\ envios' = envios
                /\ entregados' = Anotar(entregados, numero, <<mensaje>>)
                /\ SoloCapa("directo", numero,
                            <<WaTec(numero, mensaje.tipo, mensaje.ticket, NoTs)>>)
           ELSE /\ envios' = envios \cup
                       {[numero |-> numero, mensaje |-> mensaje, pc |-> "get",
                         leido |-> <<>>]}
                /\ entregados' = entregados
                /\ SoloCapa("ventana_cerrada", numero, <<>>)
        /\ UNCHANGED <<ventana, pendientes, flushes, encolados>>

\* guardar_ticket_pendiente, line 688: raw = await redis_client.get(key)
EnvioLee(e) ==
    /\ e \in envios
    /\ e.pc = "get"
    /\ envios' = (envios \ {e}) \cup
                 {[e EXCEPT !.pc = "setex",
                            !.leido = Lista(pendientes, e.numero)]}
    /\ SoloCapa("envio_get", e.numero, <<>>)
    /\ UNCHANGED <<ventana, pendientes, tickets, flushes, entregados, encolados>>

\* guardar_ticket_pendiente, lines 690-695: append to what was read, setex.
EnvioGuarda(e) ==
    /\ e \in envios
    /\ e.pc = "setex"
    /\ envios' = envios \ {e}
    /\ pendientes' = Put(pendientes, e.numero,
                         Append(e.leido, [mensaje |-> e.mensaje,
                                          timestamp |-> reloj]))
    /\ encolados' = Anotar(encolados, e.numero, <<e.mensaje>>)
    /\ SoloCapa("envio_setex", e.numero, <<>>)
    /\ UNCHANGED <<ventana, tickets, flushes, entregados>>

\* The technician writes: the window key is set (lines 1858 and 707) and
\* entregar_tickets_pendientes is about to read the queue.
FlushInicia(numero) ==
    /\ Cardinality(flushes) < MaxFlushes
    /\ ventana' = ventana \cup {numero}
    /\ flushes' = flushes \cup {[numero |-> numero, pc |-> "get", leido |-> <<>>]}
    /\ SoloCapa("flush_ventana", numero, <<>>)
    /\ UNCHANGED <<pendientes, tickets, envios, entregados, encolados>>

\* Lines 710-719: raw = await redis_client.get(key), and the two early exits.
FlushLee(f) ==
    /\ f \in flushes
    /\ f.pc = "get"
    /\ IF f.numero \notin DOMAIN pendientes
       THEN /\ flushes' = flushes \ {f}
            /\ pendientes' = pendientes
            /\ SoloCapa("flush_sin_pendientes", f.numero,
                        <<WaTec(f.numero, "activo", NoTicket, NoTs)>>)
       ELSE IF pendientes[f.numero] = <<>>
       THEN /\ flushes' = flushes \ {f}
            /\ pendientes' = Del(pendientes, f.numero)
            /\ SoloCapa("flush_lista_vacia", f.numero, <<>>)
       ELSE /\ flushes' = (flushes \ {f}) \cup
                          {[f EXCEPT !.pc = "entregar",
                                     !.leido = pendientes[f.numero]]}
            /\ pendientes' = pendientes
            /\ SoloCapa("flush_get", f.numero, <<>>)
    /\ UNCHANGED <<ventana, tickets, envios, entregados, encolados>>

\* Lines 723-733: the header and one provider call per entry read.
FlushEntrega(f) ==
    /\ f \in flushes
    /\ f.pc = "entregar"
    /\ flushes' = (flushes \ {f}) \cup {[f EXCEPT !.pc = "delete"]}
    /\ entregados' = Anotar(entregados, f.numero,
                            [i \in 1..Len(f.leido) |-> f.leido[i].mensaje])
    /\ SoloCapa("flush_entrega", f.numero, MensajesDeEntrega(f.numero, f.leido))
    /\ UNCHANGED <<ventana, pendientes, tickets, envios, encolados>>

\* Line 735: await redis_client.delete(key)
FlushBorra(f) ==
    /\ f \in flushes
    /\ f.pc = "delete"
    /\ flushes' = flushes \ {f}
    /\ pendientes' = Del(pendientes, f.numero)
    /\ SoloCapa("flush_delete", f.numero, <<>>)
    /\ UNCHANGED <<ventana, tickets, envios, entregados, encolados>>

\* The 24 h TTL of the window key runs out.
VentanaExpira(numero) ==
    /\ numero \in ventana
    /\ ventana' = ventana \ {numero}
    /\ SoloCapa("expira_ventana", numero, <<>>)
    /\ UNCHANGED <<pendientes, tickets, envios, flushes, entregados, encolados>>

Envio == EnvioInicia(TECNICO_WHATSAPP)

EnvioGet == \E e \in envios : EnvioLee(e)

EnvioSetex == \E e \in envios : EnvioGuarda(e)

Flush == FlushInicia(TECNICO_WHATSAPP)

FlushGet == \E f \in flushes : FlushLee(f)

FlushEnvia == \E f \in flushes : FlushEntrega(f)

FlushDelete == \E f \in flushes : FlushBorra(f)

VentanaCaduca == VentanaExpira(TECNICO_WHATSAPP)

NextConc ==
    \/ Envio
    \/ EnvioGet
    \/ EnvioSetex
    \/ Flush
    \/ FlushGet
    \/ FlushEnvia
    \/ FlushDelete
    \/ VentanaCaduca

SpecConc == Init /\ [][NextConc]_vars

----------------------------------------------------------------------------
(* Properties *)

FasesCliente ==
    {"IDENTIFICACION", "DIAGNOSTICO_RED", "TROUBLESHOOTING_MANUAL",
     "TROUBLESHOOTING", "ESPERANDO_PREGUNTAS_NOINET", "REBOOT_PENDIENTE",
     "ESCALADO", "ESPERANDO_TECNICO", "CSAT", "FINALIZADO_MORA"}

\* C1: in every reachable state the phase stored in a customer session is one
\* of the ten phases of the enumeration, whatever customer messages,
\* background tasks, technician closures and ticket-closed notifications ran.
C1_FaseEnumerada ==
    \A c \in DOMAIN sesiones : sesiones[c].fase \in FasesCliente

\* A technician closure has just put the customer's session in CSAT.
C1_Testigo ==
    /\ ult.op = "cierre_tecnico"
    /\ ult.rama = "cerrado"
    /\ \E c \in DOMAIN sesiones :
          sesiones[c].fase = "CSAT" /\ sesiones[c].ticket_id # NoTicket

\* The messages of the entries of a number's pending queue.
EnCola(numero) ==
    {Lista(pendientes, numero)[i].mensaje :
        i \in 1..Len(Lista(pendientes, numero))}

\* The messages handed to the provider for a number.
Entregados(numero) ==
    {Lista(entregados, numero)[i] : i \in 1..Len(Lista(entregados, numero))}

\* C2: no technician notification is lost: every message whose send found the
\* window closed and stored it is still in the recipient's pending queue or
\* has been delivered by a flush, under any interleaving of sends and flushes.
C2_SinPerdida ==
    \A numero \in DOMAIN encolados :
        \A i \in 1..Len(encolados[numero]) :
            encolados[numero][i] \in EnCola(numero) \cup Entregados(numero)

\* The escalation step that created a ticket for the technician number.
EscalaATecnico ==
    /\ ult'.op = "cliente"
    /\ ult'.rama = "escalado"
    /\ tickets' = tickets + 1

\* C3: wa_send_message_tecnico_con_fallback(recipient, message): with the
\* recipient's window open the message is delivered at once and the pending
\* queue is unchanged; with the window closed the message is not delivered
\* and exactly one entry {message, now} is appended at the tail of the
\* recipient's queue, the earlier entries unchanged.
C3_Contrato ==
    [][EscalaATecnico =>
        LET numero == TECNICO_WHATSAPP
            ticket == TicketId(tickets')
            antes == Lista(pendientes, numero)
            despues == Lista(pendientes', numero)
            avisos == {i \in 1..Len(ult'.wa_tec) :
                          ult'.wa_tec[i].tipo = "nuevo_ticket"}
        IN  IF numero \in ventana
            THEN /\ pendientes' = pendientes
                 /\ avisos = {1}
                 /\ ult'.wa_tec[1] = WaTec(numero, "nuevo_ticket", ticket, NoTs)
            ELSE /\ avisos = {}
                 /\ numero \in DOMAIN pendientes'
                 /\ Len(despues) = Len(antes) + 1
                 /\ SubSeq(despues, 1, Len(antes)) = antes
                 /\ despues[Len(despues)] =
                       [mensaje |-> Notificacion("nuevo_ticket", ticket),
                        timestamp |-> reloj]
                 /\ \A otro \in DOMAIN pendientes \ {numero} :
                       /\ otro \in DOMAIN pendientes'
                       /\ pendientes'[otro] = pendientes[otro]
    ]_vars

\* A second brief has just been queued behind an earlier one, at a later time.
C3_Testigo ==
    /\ ult.op = "cliente"
    /\ ult.rama = "escalado"
    /\ TECNICO_WHATSAPP \notin ventana
    /\ Len(Lista(pendientes, TECNICO_WHATSAPP)) = 2
    /\ pendientes[TECNICO_WHATSAPP][1].timestamp = 0
    /\ pendientes[TECNICO_WHATSAPP][2].timestamp = 1


\* The run of procesar_mensaje_tecnico reached entregar_tickets_pendientes:
\* the message had content, was no command, and its sender was authorized.
Entrega ==
    /\ ult'.op = "tecnico"
    /\ ult'.rama \notin {"sin_contenido", "admin", "admin_ignorado",
                         "no_autorizado"}

\* The provider calls of a run that carry the timestamp of a queue entry.
DeLaCola(wa_tec) == SelectSeq(wa_tec, LAMBDA w : w.ts # NoTs)

\* C4: a flush delivers every queued message exactly once, in the order of
\* the queue, which is the order of the timestamps, and deletes the queue, so
\* that the next flush without a send in between delivers none of them again.
C4_Flush ==
    [][Entrega =>
        LET numero == ult'.phone
            cola == Lista(pendientes, numero)
            entregas == DeLaCola(ult'.wa_tec)
        IN  /\ Len(entregas) = Len(cola)
            /\ \A i \in 1..Len(cola) :
                  entregas[i] = WaTec(numero, cola[i].mensaje.tipo,
                                      cola[i].mensaje.ticket, cola[i].timestamp)
            /\ \A i, j \in 1..Len(entregas) :
                  i < j => entregas[i].ts <= entregas[j].ts
            /\ numero \notin DOMAIN pendientes'
    ]_vars

\* A flush has just delivered two briefs queued at different times.
C4_Testigo ==
    /\ ult.op = "tecnico"
    /\ Len(DeLaCola(ult.wa_tec)) = 2
    /\ DeLaCola(ult.wa_tec)[1].ts < DeLaCola(ult.wa_tec)[2].ts
    /\ DeLaCola(ult.wa_tec)[1].ticket # DeLaCola(ult.wa_tec)[2].ticket
    /\ TECNICO_WHATSAPP \notin DOMAIN pendientes

\* C5: whenever a number's window goes from closed to open, its pending queue
\* has been flushed and cleared by the end of the same handler run, also when
\* the sender is not in the registry.
C5_AbreYVacia ==
    [][\A numero \in Canal :
          (numero \notin ventana /\ numero \in ventana') =>
              Lista(pendientes', numero) = <<>>
    ]_vars

\* C6: after procesar_mensaje_tecnico has processed any inbound message of a
\* technician phone that carries a text, a button reply or an image, "!"
\* texts included, the window of that phone is open.
C6_VentanaAbierta ==
    [][(ult'.op = "tecnico" /\ ult'.rama # "sin_contenido") =>
          ult'.phone \in ventana'
    ]_vars

Rechazo(phone) == <<WaTec(phone, "no_autorizado", NoTicket, NoTs)>>

\* A run of procesar_mensaje_tecnico for a sender the registry does not hold
\* as active.
DeNoAutorizado ==
    /\ ult'.op = "tecnico"
    /\ ~EsTecnicoAutorizado(tecnicos, ult'.phone)

SinEfectoEnSesiones ==
    /\ tsesiones' = tsesiones
    /\ sesiones' = sesiones
    /\ cierres' = cierres
    /\ tickets' = tickets
    /\ ult'.cerrar = <<>>
    /\ ult'.wa_cli = <<>>

\* C7, as stated: a message of a sender that is not an active entry of the
\* registry gets only the fixed refusal; no session changes, no ticket closes.
C7_Original ==
    [][DeNoAutorizado =>
          /\ ult'.wa_tec = Rechazo(ult'.phone)
          /\ SinEfectoEnSesiones
    ]_vars

\* C7, amended: that holds for a message with content that does not start
\* with "!"; a message that starts with "!" goes to the administrator
\* commands and a message without content is dropped, both without refusal;
\* in all three cases no technician session is created or changed, no
\* customer session changes and no ticket is closed, whatever the phase.
C7_NoAutorizado ==
    [][DeNoAutorizado =>
          /\ SinEfectoEnSesiones
          /\ ult'.rama = "no_autorizado" <=> ult'.wa_tec = Rechazo(ult'.phone)
          /\ ult'.rama \in {"no_autorizado", "admin", "admin_ignorado",
                            "sin_contenido"}
          /\ ult'.rama = "sin_contenido" => ult'.wa_tec = <<>>
          /\ ult'.rama = "no_autorizado" => tecnicos' = tecnicos
    ]_vars

\* A number taken out of the registry in the middle of a closing interview
\* has just been refused.
C7_Testigo ==
    /\ ult.op = "tecnico"
    /\ ult.rama = "no_autorizado"
    /\ ult.phone \in DOMAIN tsesiones
    /\ tsesiones[ult.phone].fase = "CIERRE_P1"

\* C8: the registry changes only through !addtec or !deltec sent from the
\* administrator phone; a "!" message of another sender and any message that
\* is no command leave it unchanged; a "!" message leaves the technician
\* sessions unchanged in every phase.
C8_SoloAdmin ==
    [][/\ tecnicos' # tecnicos =>
              /\ ult'.op = "tecnico"
              /\ ult'.phone = ADMIN_WHATSAPP
              /\ ult'.rama = "admin"
              /\ Len(ult'.wa_tec) = 1
              /\ ult'.wa_tec[1].tipo \in {"tecnico_agregado", "tecnico_eliminado"}
       /\ (ult'.op = "tecnico" /\ ult'.rama \in {"admin", "admin_ignorado"}) =>
              /\ tsesiones' = tsesiones
              /\ cierres' = cierres
              /\ ventana' = ventana
    ]_vars

\* The administrator has just removed a technician who is at the customer's.
C8_Testigo ==
    /\ ult.op = "tecnico"
    /\ ult.phone = ADMIN_WHATSAPP
    /\ ult.wa_tec =
          <<WaTec(ADMIN_WHATSAPP, "tecnico_eliminado", NoTicket, NoTs)>>
    /\ TECNICO_WHATSAPP \notin DOMAIN tecnicos
    /\ TECNICO_WHATSAPP \in DOMAIN tsesiones
    /\ tsesiones[TECNICO_WHATSAPP].fase = "EN_DOMICILIO"


Cadena ==
    <<"IDLE", "ESPERANDO_CONFIRMACION", "EN_CAMINO", "EN_DOMICILIO",
      "CIERRE_P1", "CIERRE_P2", "CIERRE_P3", "CIERRE_FOTOS">>

FasesTecnico == {Cadena[i] : i \in 1..Len(Cadena)}

\* g is the state after f in the chain.
Siguiente(f, g) ==
    \E i \in 1..(Len(Cadena) - 1) : Cadena[i] = f /\ Cadena[i + 1] = g

\* What one inbound message does to the stored phase of a number.
PasoDeFase(phone) ==
    IF phone \notin DOMAIN tsesiones
    THEN phone \notin DOMAIN tsesiones'
    ELSE /\ phone \in DOMAIN tsesiones'
         /\ LET f == tsesiones[phone].fase
                g == tsesiones'[phone].fase
            IN  \/ g = f
                \/ Siguiente(f, g)
                \/ f = "ESPERANDO_CONFIRMACION" /\ g = "IDLE"
                \/ f = "CIERRE_FOTOS" /\ g = "CERRANDO"

\* C9, as stated: the phase stored in a technician session is always one of
\* the eight states of the chain.
C9_Original ==
    \A phone \in DOMAIN tsesiones : tsesiones[phone].fase \in FasesTecnico

\* C9, amended: the stored phase is a state of the chain or CERRANDO, which
\* the terminating text writes from CIERRE_FOTOS before the ticket-close call
\* and which stays stored until that call has answered; an inbound message
\* leaves the phase unchanged, moves it to the next state of the chain, takes
\* it from ESPERANDO_CONFIRMACION to IDLE or from CIERRE_FOTOS to CERRANDO;
\* the close call is started only from CIERRE_FOTOS and its end clears the
\* session.
C9_Cadena ==
    [][\A phone \in TecPhones :
          /\ phone \in DOMAIN tsesiones' =>
                tsesiones'[phone].fase \in FasesTecnico \cup {"CERRANDO"}
          /\ ult'.op = "tecnico" =>
                /\ PasoDeFase(phone)
                /\ cierres' \subseteq cierres \cup
                      {c \in cierres' :
                          /\ c.phone = ult'.phone
                          /\ c.phone \in DOMAIN tsesiones
                          /\ tsesiones[c.phone].fase = "CIERRE_FOTOS"
                          /\ c.sesion.ticket_id = tsesiones[c.phone].ticket_id}
          /\ (ult'.op = "cierre_tecnico" /\ ult'.phone = phone) =>
                /\ phone \in DOMAIN tsesiones
                /\ tsesiones[phone].fase = "CERRANDO"
                /\ Len(ult'.cerrar) = 1
                /\ ult'.cerrar[1].ticket = tsesiones[phone].ticket_id
                /\ phone \notin DOMAIN tsesiones'
          /\ ult'.cerrar # <<>> => ult'.op = "cierre_tecnico"
    ]_vars

\* The terminating text has been handled: CERRANDO is stored and the close
\* call has not answered yet.
C9_Testigo ==
    /\ ult.op = "tecnico"
    /\ ult.rama = "cerrando"
    /\ TECNICO_WHATSAPP \in DOMAIN tsesiones
    /\ tsesiones[TECNICO_WHATSAPP].fase = "CERRANDO"
    /\ cierres # {}

\* C10: once a technician session has a ticket id, the id stays the same
\* until the session is cleared, under technician messages and under new
\* escalations routed to the same number.
C10_TicketFijo ==
    [][\A phone \in DOMAIN tsesiones :
          tsesiones[phone].ticket_id # NoTicket =>
              \/ phone \notin DOMAIN tsesiones'
              \/ tsesiones'[phone].ticket_id = tsesiones[phone].ticket_id
    ]_vars


\* The five lifecycle timestamps of a technician session, in lifecycle order.
Sellos(s) ==
    <<s.ts_asignado, s.ts_confirmado, s.ts_en_camino, s.ts_llegada,
      s.ts_cierre>>

DesdeEnCamino ==
    {"EN_CAMINO", "EN_DOMICILIO", "CIERRE_P1", "CIERRE_P2", "CIERRE_P3",
     "CIERRE_FOTOS", "CERRANDO"}

DesdeEnDomicilio == DesdeEnCamino \ {"EN_CAMINO"}

\* C11: in every stored technician session the timestamps that are set are
\* in the order assigned <= confirmed <= en-route <= arrived <= closed, and
\* confirmed and en-route are set from EN_CAMINO on, arrived from
\* EN_DOMICILIO on.
C11_Sellos ==
    \A phone \in DOMAIN tsesiones :
        LET s == tsesiones[phone]
            ts == Sellos(s)
        IN  /\ \A i, j \in 1..Len(ts) :
                  (i < j /\ ts[i] # NoTs /\ ts[j] # NoTs) => ts[i] <= ts[j]
            /\ s.ts_asignado # NoTs
            /\ s.fase \in DesdeEnCamino =>
                  s.ts_confirmado # NoTs /\ s.ts_en_camino # NoTs
            /\ s.fase \in DesdeEnDomicilio => s.ts_llegada # NoTs

\* A visit assigned at one time and carried on at a later one has reached the
\* end of the photo phase with all five timestamps set.
C11_Testigo ==
    /\ TECNICO_WHATSAPP \in DOMAIN tsesiones
    /\ tsesiones[TECNICO_WHATSAPP].fase = "CERRANDO"
    /\ \A i \in 1..5 : Sellos(tsesiones[TECNICO_WHATSAPP])[i] # NoTs
    /\ tsesiones[TECNICO_WHATSAPP].ts_asignado <
          tsesiones[TECNICO_WHATSAPP].ts_llegada


\* The step in which mw_cerrar_ticket has answered for a technician's close.
FinDeCierre == ult'.op = "cierre_tecnico"

\* C12: when the ticket-close call of a technician's termination phrase
\* fails, the technician is told to close the ticket by hand, the call is
\* made once and no further close is left to run, and the customer is left
\* alone; the technician session is cleared whether the close succeeded or
\* failed.
C12_CierreFallido ==
    [][FinDeCierre =>
          /\ ult'.phone \notin DOMAIN tsesiones'
          /\ Len(ult'.cerrar) = 1
          /\ \E c \in cierres : c.phone = ult'.phone /\ cierres' = cierres \ {c}
          /\ ult'.rama \in {"cerrado", "cierre_fallido"}
          /\ ult'.rama = "cierre_fallido" =>
                /\ ult'.wa_tec =
                      <<WaTec(ult'.phone, "cerrar_manual",
                              ult'.cerrar[1].ticket, NoTs)>>
                /\ ult'.wa_cli = <<>>
                /\ sesiones' = sesiones
    ]_vars

\* A close has just failed: the technician session is gone and the customer
\* is still waiting for the technician.
C12_Testigo ==
    /\ ult.op = "cierre_tecnico"
    /\ ult.rama = "cierre_fallido"
    /\ ult.phone \notin DOMAIN tsesiones
    /\ cierres = {}
    /\ "c1" \in DOMAIN sesiones
    /\ sesiones["c1"].fase = "ESPERANDO_TECNICO"

\* The customer of the close that ends in this step, told that the service is
\* back and put in CSAT with the ticket of the technician's session.
ClienteACsat(c) ==
    /\ ult'.wa_cli = <<WaCli(c.sesion.cliente_phone, "servicio_restaurado")>>
    /\ c.sesion.cliente_phone \in DOMAIN sesiones'
    /\ sesiones'[c.sesion.cliente_phone].fase = "CSAT"
    /\ sesiones'[c.sesion.cliente_phone].ticket_id = c.sesion.ticket_id
    /\ c.phone \notin DOMAIN tsesiones'

\* C13, as stated: the end of every close started by a termination phrase
\* tells the linked customer and moves the customer's session to CSAT with
\* the technician's ticket id, and the technician session is then cleared.
C13_Original ==
    [][FinDeCierre =>
          \E c \in cierres \ cierres' :
              c.sesion.cliente_phone # Nulo => ClienteACsat(c)
    ]_vars

\* C13, amended: that happens when the ticket-close call succeeded; when it
\* failed the customer gets no message and the customer's session is left as
\* it was; the technician session is cleared in both cases.
C13_Csat ==
    [][FinDeCierre =>
          \E c \in cierres \ cierres' :
              /\ c.phone \notin DOMAIN tsesiones'
              /\ (ult'.rama = "cerrado" /\ c.sesion.cliente_phone # Nulo) =>
                    ClienteACsat(c)
              /\ ult'.rama # "cerrado" =>
                    ult'.wa_cli = <<>> /\ sesiones' = sesiones
    ]_vars

\* A successful close has just told the customer and left the customer's
\* conversation in CSAT with the ticket the technician closed.
C13_Testigo ==
    /\ ult.op = "cierre_tecnico"
    /\ ult.rama = "cerrado"
    /\ ult.wa_cli = <<WaCli("c1", "servicio_restaurado")>>
    /\ "c1" \in DOMAIN sesiones
    /\ sesiones["c1"].fase = "CSAT"
    /\ sesiones["c1"].ticket_id = ult.cerrar[1].ticket
    /\ TECNICO_WHATSAPP \notin DOMAIN tsesiones

\* C14: a termination phrase in CIERRE_FOTOS starts the close for any number
\* of stored photos, zero included; the close call is made with the report
\* of the session, whose evidence section is the no-evidence text when the
\* session has no photo and one line per photo otherwise.
C14_SinFotos ==
    [][/\ (ult'.op = "tecnico" /\ ult'.rama = "cerrando") =>
              /\ tsesiones[ult'.phone].fase = "CIERRE_FOTOS"
              /\ \E c \in cierres' \ cierres :
                    /\ c.phone = ult'.phone
                    /\ c.sesion.fotos = tsesiones[ult'.phone].fotos
                    /\ c.sesion.ticket_id = tsesiones[ult'.phone].ticket_id
       /\ FinDeCierre =>
              \E c \in cierres \ cierres' :
                  /\ Len(ult'.cerrar) = 1
                  /\ ult'.cerrar[1].ticket = c.sesion.ticket_id
                  /\ ult'.cerrar[1].motivo.clase = "reporte"
                  /\ ult'.cerrar[1].motivo.evidencias =
                        IF c.sesion.fotos = 0 THEN <<"Sin evidencias">>
                        ELSE [i \in 1..c.sesion.fotos |-> "enlace"]
    ]_vars

\* A ticket has just been closed by a technician who sent no photo.
C14_Testigo ==
    /\ ult.op = "cierre_tecnico"
    /\ ult.rama = "cerrado"
    /\ Len(ult.cerrar) = 1
    /\ ult.cerrar[1].motivo.evidencias = <<"Sin evidencias">>


\* The step in which a technician declined the assignment.
Rechaza == ult'.op = "tecnico" /\ ult'.rama = "rechazado"

\* C15, as stated: after the close of its ticket and after a decline no
\* technician session is stored for the phone.
C15_Original ==
    [][(FinDeCierre \/ Rechaza) => ult'.phone \notin DOMAIN tsesiones']_vars

\* C15, amended: the close of the ticket deletes the technician session; a
\* decline keeps it in the store with phase IDLE and the fields of the
\* declined assignment, and the handler then treats the phone as one without
\* an active session: its later messages get the standby reply and leave the
\* stored session unchanged.
C15_Borrado ==
    [][/\ FinDeCierre => ult'.phone \notin DOMAIN tsesiones'
       /\ Rechaza =>
              /\ ult'.phone \in DOMAIN tsesiones'
              /\ tsesiones' =
                    Put(tsesiones, ult'.phone,
                        [tsesiones[ult'.phone] EXCEPT !.fase = "IDLE"])
              /\ tsesiones[ult'.phone].fase = "ESPERANDO_CONFIRMACION"
       /\ (/\ ult'.op = "tecnico"
           /\ ult'.phone \in DOMAIN tsesiones
           /\ tsesiones[ult'.phone].fase = "IDLE"
           /\ ult'.rama \notin {"sin_contenido", "admin", "admin_ignorado",
                                "no_autorizado"}) =>
              /\ ult'.rama = "sin_sesion"
              /\ tsesiones' = tsesiones
    ]_vars

\* The technician has just declined: the session is stored, in IDLE, with
\* the ticket that was declined.
C15_Testigo ==
    /\ ult.op = "tecnico"
    /\ ult.rama = "rechazado"
    /\ ult.phone \in DOMAIN tsesiones
    /\ tsesiones[ult.phone].fase = "IDLE"
    /\ tsesiones[ult.phone].ticket_id # NoTicket


\* The step created a ticket for a conversation whose destination is the
\* technician and sent the technician number its brief, at once or through
\* the pending queue.
TicketATecnico ==
    /\ ult'.op \in {"cliente", "tarea"}
    /\ tickets' = tickets + 1
    /\ ult'.phone \in DOMAIN sesiones'
    /\ sesiones'[ult'.phone].destino_escalado = "TECNICO"
    /\ sesiones'[ult'.phone].ticket_id = TicketId(tickets')
    /\ \/ \E i \in 1..Len(ult'.wa_tec) :
             /\ ult'.wa_tec[i].to = TECNICO_WHATSAPP
             /\ ult'.wa_tec[i].ticket = TicketId(tickets')
       \/ Lista(pendientes', TECNICO_WHATSAPP) #
             Lista(pendientes, TECNICO_WHATSAPP)

\* C16: whenever a ticket is created with destination technician and the
\* technician is notified of it, by the ESCALADO handler or by the escalation
\* of the background verification task, the store then holds a session of
\* that technician in ESPERANDO_CONFIRMACION with that ticket id and the
\* customer's phone.
C16_SesionCreada ==
    [][TicketATecnico =>
          /\ TECNICO_WHATSAPP \in DOMAIN tsesiones'
          /\ tsesiones'[TECNICO_WHATSAPP].fase = "ESPERANDO_CONFIRMACION"
          /\ tsesiones'[TECNICO_WHATSAPP].ticket_id = TicketId(tickets')
          /\ tsesiones'[TECNICO_WHATSAPP].cliente_phone = ult'.phone
    ]_vars


\* The step in which a customer's score was taken.
Califica == ult'.op = "cliente" /\ ult'.rama = "calificacion"

\* A message of a phone that has no stored session.
DeTelefonoNuevo == ult'.op = "cliente" /\ ult'.phone \notin DOMAIN sesiones

\* C17: in CSAT a reply that is a score (the customers here answer 5) makes
\* one close call for the ticket of the session, if it has one, with a note
\* that carries the score out of 5, sends the thanks and deletes the
\* session; the next message of the phone is then the first message of a new
\* session, stored in IDENTIFICACION.
C17_Calificacion ==
    [][/\ Califica =>
              /\ ult'.phone \in DOMAIN sesiones
              /\ sesiones[ult'.phone].fase = "CSAT"
              /\ ult'.cerrar =
                    IF sesiones[ult'.phone].ticket_id # NoTicket
                    THEN <<[ticket |-> sesiones[ult'.phone].ticket_id,
                            motivo |-> [clase |-> "csat", calificacion |-> 5,
                                        sobre |-> 5]]>>
                    ELSE <<>>
              /\ ult'.wa_cli = <<WaCli(ult'.phone, "gracias")>>
              /\ ult'.phone \notin DOMAIN sesiones'
       /\ DeTelefonoNuevo =>
              /\ ult'.rama = "saludo"
              /\ ult'.phone \in DOMAIN sesiones'
              /\ sesiones'[ult'.phone].fase = "IDENTIFICACION"
    ]_vars

\* A score has just closed the ticket of the conversation with the note 5/5
\* and the session is gone.
C17_Testigo ==
    /\ ult.op = "cliente"
    /\ ult.rama = "calificacion"
    /\ Len(ult.cerrar) = 1
    /\ ult.cerrar[1].motivo.calificacion = 5
    /\ ult.cerrar[1].motivo.sobre = 5
    /\ ult.phone \notin DOMAIN sesiones

\* C18: a customer message makes a close call only when the stored session
\* of the phone is in CSAT with a ticket, makes one, and leaves no session
\* behind; a message that finds no stored session, such as the same score
\* sent again, makes no close call and no ticket: it is the first message of
\* a new session in IDENTIFICACION.
C18_SinSegundoCierre ==
    [][ult'.op = "cliente" =>
          /\ ult'.cerrar # <<>> =>
                /\ ult'.phone \in DOMAIN sesiones
                /\ sesiones[ult'.phone].fase = "CSAT"
                /\ sesiones[ult'.phone].ticket_id # NoTicket
                /\ Len(ult'.cerrar) = 1
                /\ ult'.phone \notin DOMAIN sesiones'
          /\ ult'.phone \notin DOMAIN sesiones =>
                /\ ult'.cerrar = <<>>
                /\ ult'.crear = 0
                /\ tickets' = tickets
                /\ sesiones'[ult'.phone].fase = "IDENTIFICACION"
                /\ sesiones'[ult'.phone].ticket_id = NoTicket
    ]_vars

\* The phone whose conversation ended with a score and a closed ticket has
\* written again and been greeted as a new conversation, with no close call.
C18_Testigo ==
    /\ ult.op = "cliente"
    /\ ult.rama = "saludo"
    /\ ult.cerrar = <<>>
    /\ tickets > 0
    /\ ult.phone \in DOMAIN sesiones
    /\ sesiones[ult.phone].fase = "IDENTIFICACION"
    /\ sesiones[ult.phone].ticket_id = NoTicket


\* The reply that asks for the contract number again.
PideContrato(phone) == <<WaCli(phone, "contrato_no_encontrado")>>

\* C19, as stated: a message with a 6 to 12 digit number from a phone that
\* has no session, when the directory has no such contract, is answered with
\* the request to enter the contract again, and the stored phase stays
\* IDENTIFICACION.
C19_Original ==
    [][(DeTelefonoNuevo /\ ult'.contrato # Nulo) =>
          /\ ult'.wa_cli = PideContrato(ult'.phone)
          /\ sesiones'[ult'.phone].fase = "IDENTIFICACION"
    ]_vars

\* C19, amended: that is the answer when the session is in IDENTIFICACION
\* and already has a transcript: the directory is asked, and on no match the
\* request to enter the contract again is sent and the session stays as it
\* was.  The first message of a session, whatever it carries, is answered
\* with the greeting (or the apology when the language model fails) and the
\* directory is not asked; the phase stays IDENTIFICACION there too.
C19_SinContrato ==
    [][(/\ ult'.op = "cliente"
        /\ GetSession(sesiones, ult'.phone).fase = "IDENTIFICACION"
        /\ ult'.contrato # Nulo) =>
          IF GetSession(sesiones, ult'.phone).historial = 0
          THEN /\ ult'.rama = "saludo"
               /\ ult'.wa_cli \in {<<WaCli(ult'.phone, "saludo")>>,
                                   <<WaCli(ult'.phone, "disculpa")>>}
               /\ ult'.cuenta = <<>>
               /\ sesiones'[ult'.phone].fase = "IDENTIFICACION"
          ELSE /\ ult'.rama \in {"contrato_no_encontrado", "identificado",
                                 "mora"}
               /\ ult'.rama = "contrato_no_encontrado" =>
                     /\ ult'.wa_cli = PideContrato(ult'.phone)
                     /\ ult'.cuenta = <<>>
                     /\ sesiones' = sesiones
                     /\ sesiones'[ult'.phone].fase = "IDENTIFICACION"
               /\ ult'.rama # "contrato_no_encontrado" => ult'.cuenta # <<>>
    ]_vars

\* A greeted customer has just sent a contract number the directory does not
\* know.
C19_Testigo ==
    /\ ult.op = "cliente"
    /\ ult.rama = "contrato_no_encontrado"
    /\ ult.contrato = "123456"
    /\ ult.wa_cli = PideContrato(ult.phone)
    /\ sesiones[ult.phone].fase = "IDENTIFICACION"
    /\ sesiones[ult.phone].historial > 0

\* The phase the step found stored for the phone of the message.
EnMora ==
    /\ ult'.op = "cliente"
    /\ ult'.phone \in DOMAIN sesiones
    /\ sesiones[ult'.phone].fase = "FINALIZADO_MORA"

\* C20: an identification that finds a suspended account with an unpaid
\* total above zero puts the session in FINALIZADO_MORA, and any other
\* account found in DIAGNOSTICO_RED; no customer message changes the phase of
\* a session in FINALIZADO_MORA or makes a ticket-creation call.
C20_Mora ==
    [][/\ (ult'.op = "cliente" /\ ult'.cuenta # <<>>) =>
              sesiones'[ult'.phone].fase =
                  IF ult'.cuenta[1] > 0 /\ ult'.cuenta[2] = "suspendido"
                  THEN "FINALIZADO_MORA" ELSE "DIAGNOSTICO_RED"
       /\ EnMora =>
              /\ sesiones' = sesiones
              /\ ult'.crear = 0
              /\ tickets' = tickets
              /\ ult'.rama = "default"
    ]_vars

\* A customer cut off for debt has written again and got the standing reply.
C20_Testigo ==
    /\ ult.op = "cliente"
    /\ ult.rama = "default"
    /\ sesiones[ult.phone].fase = "FINALIZADO_MORA"
    /\ tickets = 0

----------------------------------------------------------------------------
(* The remote reboot *)

\* The stored session of the phone the step is about, before the step.
SesionPrevia == GetSession(sesiones, ult'.phone)

\* The step is a run of procesar_mensaje that found the phase f stored.
ClienteEn(f) == ult'.op = "cliente" /\ SesionPrevia.fase = f

\* A reading outside the inclusive window.
FueraDeVentana(x) == x # NoSenal /\ (x < SENAL_MIN \/ x > SENAL_MAX)

\* The step asked SmartOLT for the status and the signal and got these.
Telemetria(estado, senal) ==
    ult'.so = <<SoLlamada("status", estado), SoLlamada("signal", senal)>>

\* Tasks the step spawned, and tasks whose step this is.
Lanzadas == {t \in tareas' \ tareas : t.pc = "reboot"}
Avanzadas(pc) == {t \in tareas \ tareas' : t.pc = pc}

\* C21: a message in DIAGNOSTICO_RED whose telemetry says online with a
\* reading outside [-27, -8] stores REBOOT_PENDIENTE and spawns the
\* background task; the task's first step issues the reboot command; and
\* when the reboot was accepted and the telemetry after the wait says online
\* with a reading inside the window, the task stores CSAT and no
\* ticket-creation call is made.
C21_Reinicio ==
    [][/\ \A x \in Senales :
            (ClienteEn("DIAGNOSTICO_RED") /\ Telemetria("online", x)
             /\ FueraDeVentana(x)) =>
               /\ sesiones'[ult'.phone].fase = "REBOOT_PENDIENTE"
               /\ \E t \in Lanzadas : t.phone = ult'.phone /\ t.pc = "reboot"
               /\ ult'.crear = 0
       /\ \A t \in Avanzadas("reboot") :
            /\ ult'.op = "tarea"
            /\ \E exito \in BOOLEAN : ult'.so = <<SoLlamada("reboot", exito)>>
       /\ \A t \in Avanzadas("espera"), x \in Senales :
            (Telemetria("online", x) /\ ~FueraDeVentana(x) /\ x # NoSenal) =>
               /\ sesiones'[t.phone].fase = "CSAT"
               /\ sesiones'[t.phone].ticket_id = t.session.ticket_id
               /\ ult'.crear = 0
               /\ tickets' = tickets
    ]_vars

\* Scenario C has run to its end: the task spawned for a degraded signal has
\* found the equipment online at -15 dBm after the wait and stored CSAT.
C21_Testigo ==
    /\ ult.op = "tarea"
    /\ ult.so = <<SoLlamada("status", "online"), SoLlamada("signal", -15)>>
    /\ ult.phone \in DOMAIN sesiones
    /\ sesiones[ult.phone].fase = "CSAT"
    /\ sesiones[ult.phone].pasos_realizados = <<PasoDe("senal_degradada", "")>>
    /\ sesiones[ult.phone].reboot_ejecutado
    /\ tickets = 0

\* The failure codes of the speed section of the menu.
CodigosVelocidad == {"kpi_lento_todo", "kpi_wifi_lento", "kpi_lag"}

\* The step made a reboot call.
HayReboot == \E i \in 1..Len(ult'.so) : ult'.so[i].op = "reboot"

\* C22 as stated: a reboot command is issued only by a task whose session
\* records an optical reading outside the window (step "senal_degradada").
C22_Original ==
    [][HayReboot =>
          \E t \in Avanzadas("reboot") :
             \E i \in 1..Len(t.session.pasos_realizados) :
                t.session.pasos_realizados[i] = PasoDe("senal_degradada", "")
    ]_vars

\* C22, amended: the diagnosis spawns the reboot task only on status online
\* with a numeric reading outside the inclusive window, and an absent reading
\* never spawns it there nor stores REBOOT_PENDIENTE; reboot commands are
\* issued by that task alone; the only other place that spawns the task is
\* a speed code chosen in TROUBLESHOOTING by a session that has a serial,
\* whatever the reading was.
C22_SinLectura ==
    [][/\ (ClienteEn("DIAGNOSTICO_RED") /\ Lanzadas # {}) =>
              \E x \in Senales : Telemetria("online", x) /\ FueraDeVentana(x)
       /\ (ClienteEn("DIAGNOSTICO_RED")
           /\ (ult'.so = <<>> \/ \E e \in EstadosOnt : Telemetria(e, NoSenal))) =>
              /\ Lanzadas = {}
              /\ sesiones'[ult'.phone].fase # "REBOOT_PENDIENTE"
       /\ HayReboot => (ult'.op = "tarea" /\ Avanzadas("reboot") # {})
       /\ Lanzadas # {} =>
              \/ ClienteEn("DIAGNOSTICO_RED")
              \/ /\ ClienteEn("TROUBLESHOOTING")
                 /\ SesionPrevia.serial_ont # Nulo
                 /\ sesiones'[ult'.phone].kpi_activo \in CodigosVelocidad
    ]_vars

\* The equipment answered online and gave no reading: the menu was shown and
\* no task was spawned.
C22_Testigo ==
    /\ ult.op = "cliente"
    /\ ult.so = <<SoLlamada("status", "online"), SoLlamada("signal", NoSenal)>>
    /\ sesiones[ult.phone].fase = "TROUBLESHOOTING"
    /\ tareas = {}

\* C23: when so_reboot_ont answers that the command failed, the task stores
\* its session with phase TROUBLESHOOTING, tells the customer to restart
\* the equipment by hand and ends: the reboot call is the only SmartOLT call
\* of the step, no ticket-creation call is made, and the task does not stay
\* for the wait and the check.
C23_RebootFallido ==
    [][\A t \in Avanzadas("reboot") :
          ult'.so = <<SoLlamada("reboot", FALSE)>> =>
             /\ sesiones'[t.phone] =
                   [t.session EXCEPT !.fase = "TROUBLESHOOTING",
                                     !.reboot_ejecutado = TRUE]
             /\ ult'.wa_cli = <<WaCli(t.phone, "reinicio_manual")>>
             /\ ult'.wa_tec = <<>>
             /\ ult'.crear = 0
             /\ tickets' = tickets
             /\ tareas' = tareas \ {t}
    ]_vars

\* The reboot command has just failed: the session is back in
\* TROUBLESHOOTING and no task is left.
C23_Testigo ==
    /\ ult.op = "tarea"
    /\ ult.so = <<SoLlamada("reboot", FALSE)>>
    /\ sesiones[ult.phone].fase = "TROUBLESHOOTING"
    /\ sesiones[ult.phone].reboot_ejecutado
    /\ tareas = {}
    /\ tickets = 0

\* The telemetry of the step says the reboot solved the case.
Resuelto ==
    /\ Len(ult'.so) = 2
    /\ ult'.so[1].res = "online"
    /\ ult'.so[2].res # NoSenal
    /\ ~FueraDeVentana(ult'.so[2].res)

\* The ticket id the ticket-creation call of the step returned.
TicketDevuelto ==
    IF tickets' = tickets + 1 THEN TicketId(tickets') ELSE NoTicket

\* The brief about the ticket went to the technician through the delivery
\* layer: sent when the window is open, appended to the queue when closed.
PorLaCapa(tipo, ticket_id) ==
    IF TECNICO_WHATSAPP \in ventana
    THEN /\ ult'.wa_tec = <<WaTec(TECNICO_WHATSAPP, tipo, ticket_id, NoTs)>>
         /\ pendientes' = pendientes
    ELSE /\ ult'.wa_tec = <<>>
         /\ pendientes' =
               Put(pendientes, TECNICO_WHATSAPP,
                   Append(Lista(pendientes, TECNICO_WHATSAPP),
                          [mensaje |-> Notificacion(tipo, ticket_id),
                           timestamp |-> reloj]))

\* The task's escalation saved its session with the phase and the ticket.
EscalaLaTarea(t) ==
    /\ sesiones'[t.phone] =
          [t.session EXCEPT !.fase = "ESPERANDO_TECNICO",
                            !.destino_escalado = "TECNICO",
                            !.datos_tecnicos = sesiones'[t.phone].datos_tecnicos,
                            !.ticket_id = TicketDevuelto]
    /\ ult'.crear = 1
    /\ ult'.wa_cli = <<WaCli(t.phone, "ticket_post_reboot")>>

\* C24 as stated: the escalation of the task always sends the technician the
\* notification through the delivery layer.
C24_Original ==
    [][\A t \in Avanzadas("espera") :
          ~Resuelto =>
             /\ EscalaLaTarea(t)
             /\ PorLaCapa("post_reboot", TicketDevuelto)
    ]_vars

\* C24, amended: when the telemetry after the wait does not say online with a
\* reading inside the window, the task stores ESPERANDO_TECNICO, makes
\* exactly one ticket-creation call and saves its session with the id
\* returned; when an id was returned the technician's brief goes through the
\* delivery layer (sent with the window open, queued with it closed), and
\* when none was returned nothing is sent or queued for the technician.
C24_Escala ==
    [][\A t \in Avanzadas("espera") :
          ~Resuelto =>
             /\ EscalaLaTarea(t)
             /\ IF TicketDevuelto # NoTicket
                THEN PorLaCapa("post_reboot", TicketDevuelto)
                ELSE ult'.wa_tec = <<>> /\ pendientes' = pendientes
    ]_vars

\* The task has just escalated with the technician's window closed: the
\* brief about the new ticket is the last entry of the technician's queue.
C24_Testigo ==
    /\ ult.op = "tarea"
    /\ ult.crear = 1
    /\ ult.wa_tec = <<>>
    /\ sesiones[ult.phone].fase = "ESPERANDO_TECNICO"
    /\ sesiones[ult.phone].ticket_id = TicketId(tickets)
    /\ TECNICO_WHATSAPP \notin ventana
    /\ TECNICO_WHATSAPP \in DOMAIN pendientes
    /\ pendientes[TECNICO_WHATSAPP][Len(pendientes[TECNICO_WHATSAPP])].mensaje
          = Notificacion("post_reboot", sesiones[ult.phone].ticket_id)

\* The tasks that end in the step: the one whose reboot command failed, or
\* the one that made its check after the wait.
Terminadas ==
    {t \in tareas \ tareas' :
        /\ ult'.op = "tarea"
        /\ t.pc = "reboot" => ult'.so = <<SoLlamada("reboot", FALSE)>>}

\* The phase a task stores at its end: TROUBLESHOOTING when the reboot
\* command failed, otherwise by the telemetry after the wait.
FaseElegida(t) ==
    IF t.pc = "reboot" THEN "TROUBLESHOOTING"
    ELSE IF Resuelto THEN "CSAT" ELSE "ESPERANDO_TECNICO"

\* The session a task stores at its end, from its snapshot alone.
Escrita(t) ==
    [t.session EXCEPT
        !.fase = FaseElegida(t),
        !.reboot_ejecutado = TRUE,
        !.destino_escalado =
            IF FaseElegida(t) = "ESPERANDO_TECNICO" THEN "TECNICO" ELSE @,
        !.datos_tecnicos =
            IF FaseElegida(t) = "ESPERANDO_TECNICO"
            THEN <<"post_reboot", IF ult'.so[1].res = Nulo THEN "offline"
                                                         ELSE ult'.so[1].res>>
            ELSE @,
        !.ticket_id =
            IF FaseElegida(t) = "ESPERANDO_TECNICO" THEN TicketDevuelto ELSE @]

\* C25: the session the task stores when it ends is its snapshot with the
\* phase the task chose (and, when it escalates, the destination, findings
\* and ticket id it set): whatever is stored for the phone at that moment,
\* changed or deleted by another handler during the wait, is replaced.
C25_Sobrescribe ==
    [][\A t \in Terminadas :
          /\ t.phone \in DOMAIN sesiones'
          /\ sesiones'[t.phone] = Escrita(t)
    ]_vars

\* The ticket-closed notification stored CSAT during the wait, and the task
\* has just ended its check and stored ESPERANDO_TECNICO over it.
C25_Testigo ==
    /\ ult.op = "tarea"
    /\ ult.antes = "CSAT"
    /\ Len(ult.so) = 2
    /\ sesiones[ult.phone].fase = "ESPERANDO_TECNICO"

----------------------------------------------------------------------------
(* Re-entry and escalation *)

\* The branches of procesar_mensaje that end by calling procesar_mensaje.
RamasQueReentran ==
    {"offline_sin_causa", "offline_confirmado", "kpi_velocidad_sin_serial",
     "no_internet_critico", "kpi_intermitente", "kpi_dns",
     "kpi_wifi_no_aparece", "corte"}

\* The phases those branches belong to.
FasesQueReentran ==
    {"TROUBLESHOOTING_MANUAL", "TROUBLESHOOTING", "ESPERANDO_PREGUNTAS_NOINET"}

\* The step is a run of procesar_mensaje that re-invokes itself.
Reinvoca == ult'.op = "cliente" /\ ult'.rama \in RamasQueReentran

\* What every re-invoking run does first: it saves ESCALADO, and the call
\* it makes is one more pending call for its phone.
GuardaEscalado ==
    /\ SesionPrevia.fase \in FasesQueReentran
    /\ sesiones'[ult'.phone].fase = "ESCALADO"
    /\ reentradas' # <<>>
    /\ reentradas'[Len(reentradas')].phone = ult'.phone

\* A run that finds ESCALADO stored makes no call of procesar_mensaje and
\* stores ESPERANDO_TECNICO.
EscaladoNoReentra ==
    ClienteEn("ESCALADO") =>
       /\ ~Reinvoca
       /\ \/ reentradas' = reentradas
          \/ \E i \in 1..Len(reentradas) : reentradas' = Quitar(reentradas, i)
       /\ sesiones'[ult'.phone].fase = "ESPERANDO_TECNICO"

AvisaDestino ==
    \/ ult'.wa_tec # <<>>
    \/ pendientes' # pendientes
    \/ tsesiones' # tsesiones

\* C27: a run that finds ESCALADO makes exactly one ticket-creation call,
\* sends the customer the acknowledgment and stores ESPERANDO_TECNICO with
\* the id the call returned; when the call returned none the stored id is
\* absent and nothing is sent, queued or saved for a technician or the NOC,
\* and when it returned one the destination is notified.
C27_Escalado ==
    [][ClienteEn("ESCALADO") =>
          /\ ult'.crear = 1
          /\ tickets' \in {tickets, tickets + 1}
          /\ ult'.wa_cli = <<WaCli(ult'.phone, "ticket_registrado")>>
          /\ sesiones'[ult'.phone] =
                [SesionPrevia EXCEPT !.fase = "ESPERANDO_TECNICO",
                                     !.ticket_id = TicketDevuelto]
          /\ (TicketDevuelto = NoTicket) = ~AvisaDestino
    ]_vars

\* Ticket creation has just failed in ESCALADO: the customer has the
\* acknowledgment, the session waits for a technician without a ticket id,
\* and no technician or NOC has anything sent, queued or saved.
C27_Testigo ==
    /\ ult.op = "cliente"
    /\ ult.rama = "escalado"
    /\ ult.crear = 1
    /\ ult.wa_cli = <<WaCli(ult.phone, "ticket_registrado")>>
    /\ ult.wa_tec = <<>>
    /\ sesiones[ult.phone].fase = "ESPERANDO_TECNICO"
    /\ sesiones[ult.phone].ticket_id = NoTicket
    /\ tickets = 0
    /\ tsesiones = Vacio
    /\ pendientes = Vacio

\* The destination the problem calls for: the NOC for "pages do not load"
\* and "my WiFi does not appear", a technician for everything else.
DestinoDe(kpi) ==
    IF kpi \in {"kpi_dns", "kpi_wifi_no_aparece"} THEN "NOC" ELSE "TECNICO"

\* The problems a session is escalated with.
KpisEscalados ==
    CodigosVelocidad \cup
    {"kpi_no_internet", "kpi_intermitente", "kpi_dns", "kpi_wifi_no_aparece",
     "ont_offline_sin_causa_aparente", "ont_offline_confirmado"}

\* Every session stored in ESCALADO names an escalated problem and the
\* destination that problem calls for.
DestinoFijado(ses) ==
    \A p \in DOMAIN ses :
       ses[p].fase = "ESCALADO" =>
          /\ ses[p].kpi_activo \in KpisEscalados
          /\ ses[p].destino_escalado = DestinoDe(ses[p].kpi_activo)

\* C28: whenever ESCALADO is stored the destination is already stored with
\* it and is the one the problem calls for; the ESCALADO run notifies that
\* destination: for the NOC it queues or sends one message to the NOC number
\* and saves no technician session, for a technician it saves the
\* technician session of the ticket.
C28_Destino ==
    [][/\ DestinoFijado(sesiones')
       /\ (ClienteEn("ESCALADO") /\ TicketDevuelto # NoTicket) =>
             IF SesionPrevia.destino_escalado = "NOC"
             THEN /\ tsesiones' = tsesiones
                  /\ \A i \in 1..Len(ult'.wa_tec) :
                        ult'.wa_tec[i].to = NOC_WHATSAPP
                  /\ Lista(pendientes', TECNICO_WHATSAPP)
                        = Lista(pendientes, TECNICO_WHATSAPP)
                  /\ Lista(pendientes', NOC_WHATSAPP) \o ult'.wa_tec
                        # Lista(pendientes, NOC_WHATSAPP)
             ELSE /\ TECNICO_WHATSAPP \in DOMAIN tsesiones'
                  /\ tsesiones'[TECNICO_WHATSAPP].ticket_id = TicketDevuelto
                  /\ tsesiones'[TECNICO_WHATSAPP].cliente_phone = ult'.phone
    ]_vars

\* A customer whose WiFi does not appear has been escalated to the NOC: the
\* ticket exists, the NOC has its message queued, no technician session.
C28_Testigo ==
    /\ ult.op = "cliente"
    /\ ult.rama = "escalado"
    /\ sesiones[ult.phone].kpi_activo = "kpi_wifi_no_aparece"
    /\ sesiones[ult.phone].destino_escalado = "NOC"
    /\ sesiones[ult.phone].ticket_id = TicketId(1)
    /\ tsesiones = Vacio
    /\ Len(Lista(pendientes, NOC_WHATSAPP)) = 1
    /\ Lista(pendientes, TECNICO_WHATSAPP) = <<>>

----------------------------------------------------------------------------
(* Failures of the language model *)

\* The reply of the step is call_glm's fixed apology.
Disculpa == ult'.wa_cli = <<WaCli(ult'.phone, "disculpa")>>

\* The previous step greeted the phone this step is about.
TrasSaludo ==
    /\ ult.op = "cliente"
    /\ ult.rama = "saludo"
    /\ ult'.op = "cliente"
    /\ ult'.phone = ult.phone

\* C29: a failed generation puts the apology in the place of the reply and
\* the conversation advances as after a successful one: the identification of
\* an account stores the phase the account calls for, and the message after a
\* greeting, failed or not, is taken to the contract extraction and not
\* greeted again.
C29_Avanza ==
    [][/\ (ClienteEn("IDENTIFICACION") /\ Disculpa /\ ult'.cuenta # <<>>) =>
             sesiones'[ult'.phone].fase \in {"DIAGNOSTICO_RED", "FINALIZADO_MORA"}
       /\ TrasSaludo =>
             ult'.rama \in {"sin_contrato", "contrato_no_encontrado",
                            "identificado", "mora"}
    ]_vars

----------------------------------------------------------------------------
(* Customers without trackable equipment *)

\* The step is a run of procesar_mensaje for a session without a serial.
SinSerial == ult'.op = "cliente" /\ SesionPrevia.serial_ont = Nulo

\* The failure codes the menu offers.
CodigosDelMenu ==
    CodigosVelocidad \cup
    {"kpi_no_internet", "kpi_intermitente", "kpi_dns", "kpi_wifi_no_aparece"}

\* C30: a run for a session without a serial makes no SmartOLT call of any
\* kind, spawns no reboot task and never stores REBOOT_PENDIENTE or
\* TROUBLESHOOTING_MANUAL; in DIAGNOSTICO_RED it shows the failure menu and
\* stores TROUBLESHOOTING; in TROUBLESHOOTING every code of the menu stores
\* ESCALADO and re-enters, and anything else leaves the session as it was.
\* The reboot tasks that exist carry a serial.
C30_SinSerial ==
    [][/\ SinSerial =>
             /\ ult'.so = <<>>
             /\ Lanzadas = {}
             /\ ult'.phone \in DOMAIN sesiones' =>
                   sesiones'[ult'.phone].fase \notin
                      {"REBOOT_PENDIENTE", "TROUBLESHOOTING_MANUAL"}
             /\ SesionPrevia.fase = "DIAGNOSTICO_RED" =>
                   /\ sesiones'[ult'.phone].fase = "TROUBLESHOOTING"
                   /\ ult'.wa_cli = <<WaCli(ult'.phone, "lista_kpi")>>
             /\ SesionPrevia.fase = "TROUBLESHOOTING" =>
                   \/ /\ Reinvoca
                      /\ GuardaEscalado
                      /\ sesiones'[ult'.phone].kpi_activo \in CodigosDelMenu
                   \/ /\ ult'.rama \in {"no_es_kpi", "kpi_sin_rama"}
                      /\ sesiones' = sesiones
       /\ \A t \in tareas' : t.session.serial_ont # Nulo /\ t.serial # Nulo
    ]_vars

\* A customer without a serial was shown the menu, chose "everything is
\* slow" and is being escalated: no task, no SmartOLT call.
C30_Testigo ==
    /\ ult.op = "cliente"
    /\ ult.rama = "kpi_velocidad_sin_serial"
    /\ ult.so = <<>>
    /\ sesiones[ult.phone].serial_ont = Nulo
    /\ sesiones[ult.phone].fase = "ESCALADO"
    /\ sesiones[ult.phone].pasos_realizados[1] = PasoDe("menu_desplegado", "")
    /\ tareas = {}

----------------------------------------------------------------------------
(* A reply for every message *)

\* C31: every run of procesar_mensaje sends the customer at least one
\* message, or hands the message to a nested run of procesar_mensaje, which
\* sends it: no inbound message, in any phase, is left without a reply.
C31_SiempreResponde ==
    [][ult'.op = "cliente" =>
          \/ \E i \in 1..Len(ult'.wa_cli) : ult'.wa_cli[i].to = ult'.phone
          \/ Reinvoca
    ]_vars

----------------------------------------------------------------------------
(* The stored transcript *)

\* C32: the transcript stored in a customer session never holds more
\* entries than the window call_glm sends to the language model.
C32_Acotado ==
    \A p \in DOMAIN sesiones : sesiones[p].historial <= VentanaGlm

----------------------------------------------------------------------------
(* The ticket-closed notification *)

\* C33: a ticket-closed notification that names a customer phone stores
\* that customer's session in phase CSAT and sends the customer the survey
\* prompt.
C33_Encuesta ==
    [][ult'.op = "ticket_cerrado" =>
          /\ ult'.phone \in DOMAIN sesiones'
          /\ sesiones'[ult'.phone].fase = "CSAT"
          /\ \E i \in 1..Len(ult'.wa_cli) : ult'.wa_cli[i].to = ult'.phone
    ]_vars

----------------------------------------------------------------------------
(* The diagnosis *)

\* What SmartOLT answered to the status and signal requests of the step;
\* nothing is asked for a session without a serial.
EstadoLeido == IF ult'.so = <<>> THEN Nulo ELSE ult'.so[1].res
SenalLeida == IF ult'.so = <<>> THEN NoSenal ELSE ult'.so[2].res

\* C34: in DIAGNOSTICO_RED the stored phase is a function of the telemetry.
\* Status offline, power fail or los: TROUBLESHOOTING_MANUAL, the step list
\* reset to the single entry ont_estado:<status>, no task.  Status online
\* with a reading outside the window, for a session with a serial:
\* REBOOT_PENDIENTE, and the one task spawned carries the saved session.
\* Every other case, unavailable status among them: TROUBLESHOOTING, the
\* failure menu sent, no task and no reboot call.
C34_Diagnostico ==
    [][ClienteEn("DIAGNOSTICO_RED") =>
          LET d == sesiones'[ult'.phone]
          IN  IF EstadoLeido \in {"offline", "power fail", "los"}
              THEN /\ d.fase = "TROUBLESHOOTING_MANUAL"
                   /\ d.pasos_realizados = <<PasoDe("ont_estado", EstadoLeido)>>
                   /\ tareas' = tareas
              ELSE IF /\ EstadoLeido = "online"
                      /\ FueraDeVentana(SenalLeida)
                      /\ SesionPrevia.serial_ont # Nulo
              THEN /\ d.fase = "REBOOT_PENDIENTE"
                   /\ tareas' = tareas \cup {Tarea(ult'.phone, d)}
                   /\ Tarea(ult'.phone, d) \notin tareas
              ELSE /\ d.fase = "TROUBLESHOOTING"
                   /\ ult'.wa_cli = <<WaCli(ult'.phone, "lista_kpi")>>
                   /\ tareas' = tareas
                   /\ ~HayReboot
    ]_vars

\* Scenario D: the status request answered "los" and the customer was sent
\* the manual guide.
C34_Testigo ==
    /\ ult.op = "cliente"
    /\ ult.rama = "ont_offline"
    /\ ult.so[1] = SoLlamada("status", "los")
    /\ sesiones[ult.phone].fase = "TROUBLESHOOTING_MANUAL"
    /\ sesiones[ult.phone].pasos_realizados = <<PasoDe("ont_estado", "los")>>
    /\ tareas = {}

----------------------------------------------------------------------------
(* The two-question interview *)

\* The lights answers recorded in a step list.
LucesRespondidas(pasos) ==
    {pasos[i].v : i \in {j \in 1..Len(pasos) :
                            pasos[j].k = "luces" /\ EsLuces(pasos[j].v)}}

\* C35: a run that finds ESPERANDO_PREGUNTAS_NOINET stored saves ESCALADO
\* only when an earlier message answered the lights question, and the
\* findings it saves carry that lights answer and the power-outage answer.
C35_DosRespuestas ==
    [][(ClienteEn("ESPERANDO_PREGUNTAS_NOINET")
        /\ sesiones'[ult'.phone].fase = "ESCALADO") =>
          /\ LucesRespondidas(SesionPrevia.pasos_realizados) # {}
          /\ sesiones'[ult'.phone].datos_tecnicos[2]
                \in LucesRespondidas(SesionPrevia.pasos_realizados)
          /\ sesiones'[ult'.phone].datos_tecnicos[3] \in {"Si", "No"}
    ]_vars

----------------------------------------------------------------------------
(* The closing interview *)

\* The technician phases that come after each question of the interview.
TrasP3 == {"CIERRE_FOTOS", "CERRANDO"}
TrasP2 == TrasP3 \cup {"CIERRE_P3"}
TrasP1 == TrasP2 \cup {"CIERRE_P2"}

\* C36: a technician session that is past CIERRE_P1 holds a text as fault
\* type, one past CIERRE_P2 a text as solution, one past CIERRE_P3 a text as
\* materials, whatever kind of message was received in those phases.
C36_Respuestas ==
    \A p \in DOMAIN tsesiones :
        /\ tsesiones[p].fase \in TrasP1 => tsesiones[p].falla = "texto"
        /\ tsesiones[p].fase \in TrasP2 => tsesiones[p].solucion = "texto"
        /\ tsesiones[p].fase \in TrasP3 => tsesiones[p].materiales = "texto"

----------------------------------------------------------------------------
(* The wait for the background task *)

\* A run of procesar_mensaje that finds REBOOT_PENDIENTE stored sends the
\* holding reply and writes nothing.
MensajeNoMueve ==
    ClienteEn("REBOOT_PENDIENTE") =>
       /\ sesiones' = sesiones
       /\ tareas' = tareas
       /\ reentradas' = reentradas \/ Len(reentradas') < Len(reentradas)
       /\ ult'.wa_cli = <<WaCli(ult'.phone, "caso_en_atencion")>>

----------------------------------------------------------------------------
(* Ticket-close calls *)

\* The step made two ticket-close calls in a row with the previous one for
\* the same ticket.
CierraOtraVez ==
    /\ ult.cerrar # <<>>
    /\ ult'.cerrar # <<>>
    /\ ult'.cerrar[1].ticket = ult.cerrar[1].ticket

C39_UnTicket == tickets <= 1

\* The technician session waits for a structured reply.
EsperaBoton ==
    /\ TECNICO_WHATSAPP \in DOMAIN tsesiones
    /\ tsesiones[TECNICO_WHATSAPP].fase \in
          {"ESPERANDO_CONFIRMACION", "EN_CAMINO", "EN_DOMICILIO"}

\* C40: a structured technician reply advances the technician session only
\* when the ticket id it carries equals the session's ticket id; a reply
\* built for another ticket, one whose id the session's id is a proper
\* prefix of included, leaves the session as it was.
C40_SoloSuTicket ==
    [][(BotonAjeno /\ EsperaBoton) => tsesiones' = tsesiones]_vars

====
